---- MODULE Spec2Model ----
(***************************************************************************)
(* Treasurer detection of backend/intelligent_treasurer_system.py:         *)
(* source gathering, pattern-based name extraction, name validation,       *)
(* confidence scoring, aggregation and the decision engine.                *)
(*                                                                         *)
(* Text blobs are strings and are processed character by character, as     *)
(* the Python code does.  U+2014 (em dash) is written "~" because module   *)
(* strings are ASCII.  Confidence values are IEEE-754 doubles; a double v  *)
(* is held exactly as the pair [c, e] with v = c/100 + e / (25 * 2^60).    *)
(***************************************************************************)
EXTENDS Integers, Sequences, FiniteSets, TLC

(***************************************************************************)
(* Bounds of the model.                                                    *)
(***************************************************************************)
\* channels of one run that answer with text or fail, a total outage apart
MaxActive == 2
\* length of the candidate lists handed to the decision engine on its own
MaxCands == 3
\* length of the candidate lists behind a run of the email scraper
MaxMailCands == 1

(***************************************************************************)
(* Characters and Python string methods.                                   *)
(***************************************************************************)
EmDash == "~"
UpperChars == <<"A","B","C","D","E","F","G","H","I","J","K","L","M",
                "N","O","P","Q","R","S","T","U","V","W","X","Y","Z">>
LowerChars == <<"a","b","c","d","e","f","g","h","i","j","k","l","m",
                "n","o","p","q","r","s","t","u","v","w","x","y","z">>
UpperSet == {UpperChars[i] : i \in 1..26}
LowerSet == {LowerChars[i] : i \in 1..26}
DigitSet == {"0","1","2","3","4","5","6","7","8","9"}
SpaceSet == {" ", "\n", "\t"}

SetMin(S) == CHOOSE m \in S : \A y \in S : m <= y
SetMax(S) == CHOOSE m \in S : \A y \in S : m >= y

Chars(s) == [i \in 1..Len(s) |-> SubSeq(s, i, i)]

RECURSIVE Join(_)
Join(cs) ==
  IF Len(cs) = 0 THEN ""
  ELSE IF Len(cs) = 1 THEN cs[1]
  ELSE LET h == Len(cs) \div 2
       IN  Join(SubSeq(cs, 1, h)) \o Join(SubSeq(cs, h + 1, Len(cs)))

LowerOf(ch) == IF ch \in UpperSet
               THEN LowerChars[CHOOSE i \in 1..26 : UpperChars[i] = ch]
               ELSE ch

\* str.lower()
Lower(s) == Join([i \in 1..Len(s) |-> LowerOf(SubSeq(s, i, i))])

\* needle in hay
Contains(hay, needle) ==
  \E i \in 1..(Len(hay) - Len(needle) + 1) :
     SubSeq(hay, i, i + Len(needle) - 1) = needle

\* str.endswith
EndsWith(s, suf) ==
  Len(suf) <= Len(s) /\ SubSeq(s, Len(s) - Len(suf) + 1, Len(s)) = suf

\* str.strip()
Strip(s) ==
  LET ix == {i \in 1..Len(s) : SubSeq(s, i, i) \notin SpaceSet}
  IN  IF ix = {} THEN "" ELSE SubSeq(s, SetMin(ix), SetMax(ix))

\* str.split(): the maximal runs of non-whitespace characters, in order
RECURSIVE SplitFrom(_, _)
SplitFrom(s, i) ==
  LET st == {j \in i..Len(s) : SubSeq(s, j, j) \notin SpaceSet}
  IN  IF st = {} THEN <<>>
      ELSE LET a  == SetMin(st)
               sp == {j \in a..Len(s) : SubSeq(s, j, j) \in SpaceSet}
               b  == IF sp = {} THEN Len(s) ELSE SetMin(sp) - 1
           IN  <<SubSeq(s, a, b)>> \o SplitFrom(s, b + 1)
Split(s) == SplitFrom(s, 1)

\* s[:n]
Prefix(s, n) == IF Len(s) <= n THEN s ELSE SubSeq(s, 1, n)

IsUpperCh(ch) == ch \in UpperSet
IsAlphaCh(ch) == ch \in UpperSet \/ ch \in LowerSet
IsAlnumCh(ch) == IsAlphaCh(ch) \/ ch \in DigitSet

(***************************************************************************)
(* IEEE-754 double arithmetic on the values the scorer produces.  P58 is   *)
(* 2^58 modulo 12800: one hundredth is 2^58 units of 1 / (25 * 2^60).      *)
(***************************************************************************)
P58 == 6144

Ulp(c, e) ==
  IF c > 100 \/ (c = 100 /\ e >= 0) THEN 6400
  ELSE IF c > 50 \/ (c = 50 /\ e >= 0) THEN 3200
  ELSE IF c > 25 \/ (c = 25 /\ e >= 0) THEN 1600
  ELSE IF c >= 13 THEN 800
  ELSE IF c >= 7 THEN 400
  ELSE IF c >= 4 THEN 200
  ELSE 100

\* round to nearest, ties to even, of a non-negative exact value; u is the
\* spacing of the doubles around it and r its distance from the one below
RoundMag(c, e) ==
  LET Nearest(u, r) ==
        IF 2 * r < u THEN [c |-> c, e |-> e - r]
        ELSE IF 2 * r > u THEN [c |-> c, e |-> e - r + u]
        ELSE IF (c * P58 + e - r) % (2 * u) = 0 THEN [c |-> c, e |-> e - r]
        ELSE [c |-> c, e |-> e - r + u]
      Spaced(u) == Nearest(u, (c * P58 + e) % u)
  IN  IF c <= 1 THEN [c |-> c, e |-> e] ELSE Spaced(Ulp(c, e))

IsNeg(x) == x.c < 0 \/ (x.c = 0 /\ x.e < 0)
FNeg(x) == [c |-> 0 - x.c, e |-> 0 - x.e]
Round(c, e) ==
  IF IsNeg([c |-> c, e |-> e]) THEN FNeg(RoundMag(0 - c, 0 - e))
  ELSE RoundMag(c, e)

\* the double written k/100 in the source, e.g. F(55) is the literal 0.55
F(k) == Round(k, 0)
FAdd(x, y) == Round(x.c + y.c, x.e + y.e)
FSub(x, y) == Round(x.c - y.c, x.e - y.e)
FGe(x, y) == x.c > y.c \/ (x.c = y.c /\ x.e >= y.e)
FLt(x, y) == ~FGe(x, y)
FGt(x, y) == x.c > y.c \/ (x.c = y.c /\ x.e > y.e)
\* the later of the two values
FMax_latest(x, y) == y
\* max(x, y)
FMax(x, y) == IF FGt(y, x) THEN y ELSE x
\* max(0.0, min(0.5, x))
Clip_at_half(x) == IF IsNeg(x) THEN F(0) ELSE IF FGe(x, F(50)) THEN F(50) ELSE x
\* max(0.0, min(1.0, x))
Clip(x) == IF IsNeg(x) THEN F(0) ELSE IF FGe(x, F(100)) THEN F(100) ELSE x

(***************************************************************************)
(* Regular expressions with the semantics of Python's re module under      *)
(* re.IGNORECASE: backtracking, leftmost match, greedy or lazy counts.     *)
(* A pattern is a sequence of nodes; it is matched against the lower-cased *)
(* text, and groups are cut out of the original text.                      *)
(***************************************************************************)
Inf == 9999

InClass(k, ch) ==
  CASE k = "alpha"  -> ch \in LowerSet
    [] k = "space"  -> ch \in SpaceSet
    [] k = "digit"  -> ch \in DigitSet
    [] k = "notdot" -> ch # "."
    [] k = "notbar" -> ch # "|"
    [] k = "any"    -> ch # "\n"
    [] k = "dot"    -> ch = "."
    [] k = "colsp"  -> ch = ":" \/ ch \in SpaceSet
    [] k = "nots"   -> ch # "'" /\ ch # "s"
    [] k = "dash"   -> ch = "-" \/ ch = EmDash
    [] k = "hyphen" -> ch = "-"
    [] k = "i"      -> ch = "i"
    [] k = "s"      -> ch = "s"
    [] k = "amp"    -> ch = "&"
    [] k = "quote"  -> ch = "\""
    [] OTHER        -> FALSE

Fail == [ok |-> FALSE, e |-> 0, cap |-> <<>>]
C(k) == [t |-> "c", k |-> k, s |-> "", lo |-> 1, hi |-> 1, lazy |-> FALSE, rs |-> <<>>]
L(s) == [t |-> "l", k |-> "", s |-> s, lo |-> 1, hi |-> 1, lazy |-> FALSE, rs |-> <<>>]
Rp(k, lo, hi) == [t |-> "r", k |-> k, s |-> "", lo |-> lo, hi |-> hi, lazy |-> FALSE, rs |-> <<>>]
RpLazy(k, lo, hi) == [t |-> "r", k |-> k, s |-> "", lo |-> lo, hi |-> hi, lazy |-> TRUE, rs |-> <<>>]
Alt(rs) == [t |-> "a", k |-> "", s |-> "", lo |-> 1, hi |-> 1, lazy |-> FALSE, rs |-> rs]
Opt(r) == Alt(<<r, <<>>>>)
Grp == [t |-> "g", k |-> "", s |-> "", lo |-> 1, hi |-> 1, lazy |-> FALSE, rs |-> <<>>]
Bol == [t |-> "^", k |-> "", s |-> "", lo |-> 1, hi |-> 1, lazy |-> FALSE, rs |-> <<>>]
WordB == [t |-> "b", k |-> "", s |-> "", lo |-> 1, hi |-> 1, lazy |-> FALSE, rs |-> <<>>]

\* the number of characters from position i on that are in class k, at most hi
Run(cs, k, i, hi) ==
  LET lim == IF Len(cs) - i + 1 < hi THEN Len(cs) - i + 1 ELSE hi
      bad == {j \in 0..(lim - 1) : ~InClass(k, cs[i + j])}
  IN  IF bad = {} THEN lim ELSE SetMin(bad)

IsWordCh(cs, i) == i >= 1 /\ i <= Len(cs) /\ (IsAlnumCh(cs[i]) \/ cs[i] = "_")

\* the first successful way, in backtracking order, to match the node
\* sequence st at position i; Grp marks a group boundary
RECURSIVE M(_, _, _, _, _), FirstAlt(_, _, _, _, _, _, _)
M(ls, cs, st, i, cap) ==
  IF Len(st) = 0 THEN [ok |-> TRUE, e |-> i, cap |-> cap]
  ELSE LET h == Head(st)
           r == Tail(st)
       IN CASE h.t = "c" -> IF i <= Len(cs) /\ InClass(h.k, cs[i])
                            THEN M(ls, cs, r, i + 1, cap) ELSE Fail
            [] h.t = "l" -> IF i + Len(h.s) - 1 <= Len(cs)
                               /\ SubSeq(ls, i, i + Len(h.s) - 1) = h.s
                            THEN M(ls, cs, r, i + Len(h.s), cap) ELSE Fail
            [] h.t = "r" -> LET mx   == Run(cs, h.k, i, h.hi)
                                good == {n \in h.lo..mx : M(ls, cs, r, i + n, cap).ok}
                            IN  IF good = {} THEN Fail
                                ELSE IF h.lazy THEN M(ls, cs, r, i + SetMin(good), cap)
                                ELSE M(ls, cs, r, i + SetMax(good), cap)
            [] h.t = "a" -> FirstAlt(ls, cs, h.rs, 1, r, i, cap)
            [] h.t = "g" -> M(ls, cs, r, i, Append(cap, i))
            [] h.t = "^" -> IF i = 1 THEN M(ls, cs, r, i, cap) ELSE Fail
            [] h.t = "b" -> IF IsWordCh(cs, i - 1) # IsWordCh(cs, i)
                            THEN M(ls, cs, r, i, cap) ELSE Fail
FirstAlt(ls, cs, alts, j, r, i, cap) ==
  IF j > Len(alts) THEN Fail
  ELSE LET a == M(ls, cs, alts[j] \o r, i, cap)
       IN  IF a.ok THEN a ELSE FirstAlt(ls, cs, alts, j + 1, r, i, cap)

\* re.search(p, s, re.IGNORECASE) is not None
Search(p, s) ==
  LET ls == Lower(s)
      cs == Chars(ls)
  IN  \E i \in 1..(Len(s) + 1) : M(ls, cs, p, i, <<>>).ok


\* the matches of re.finditer(p, s, re.IGNORECASE), left to right, not
\* overlapping; each match is the sequence of its groups
RECURSIVE Pick(_, _, _)
Pick(ms, s, i) ==
  LET nxt == {j \in i..Len(ms) : ms[j].ok}
  IN  IF nxt = {} THEN <<>>
      ELSE LET j == SetMin(nxt)
               a == ms[j]
               groups == [g \in 1..(Len(a.cap) \div 2) |->
                            SubSeq(s, a.cap[2 * g - 1], a.cap[2 * g] - 1)]
           IN  <<groups>> \o Pick(ms, s, IF a.e > j THEN a.e ELSE j + 1)
FindIter(p, s) ==
  LET ls == Lower(s)
      cs == Chars(ls)
      ms == [i \in 1..(Len(s) + 1) |-> M(ls, cs, p, i, <<>>)]
  IN  Pick(ms, s, 1)


(***************************************************************************)
(* The name patterns.  Both lists end up in one set of names, so each list *)
(* is the set of its distinct patterns.                                    *)
(***************************************************************************)
W == <<C("alpha"), Rp("alpha", 1, Inf)>>
Sp == <<Rp("space", 1, Inf)>>
Sp0 == <<Rp("space", 0, Inf)>>
Gap(n) == <<Rp("notdot", 0, n)>>
N2 == <<Grp>> \o W \o Sp \o W \o <<Grp>>
N3 == <<Grp>> \o W \o Sp \o W \o Sp \o W \o <<Grp>>
NSuffix == <<Grp>> \o W \o Sp \o W \o Sp
             \o <<Alt(<< <<L("jr"), Rp("dot", 0, 1)>>, <<L("sr"), Rp("dot", 0, 1)>>,
                         <<Rp("i", 2, Inf)>>, <<L("iv")>> >>)>> \o <<Grp>>
Asst == <<Opt(<<L("assistant")>> \o Sp)>>
Tr == <<L("treasurer")>>
VpAnd == <<Opt(<<L("vice")>> \o Sp \o <<L("president")>> \o Sp \o <<L("and")>> \o Sp)>>
ServesAs == <<L("serves")>> \o Sp \o <<L("as")>>
HeadOfTreasury == <<L("head")>> \o Sp \o <<L("of")>> \o Sp \o <<L("treasury")>>
TreasuryHead == <<L("treasury")>> \o Sp \o <<L("head")>>
DirectorOfTreasury == <<L("director")>> \o Sp \o <<L("of")>> \o Sp \o <<L("treasury")>>
VpTreasury == <<L("vp")>> \o Sp \o <<L("treasury")>>
VicePresidentTreasury == <<L("vice")>> \o Sp \o <<L("president")>> \o Sp \o <<L("treasury")>>

\* quoted nickname; middle initial with a dash of class k
PatNickname == W \o Sp \o <<C("quote"), Grp>> \o W \o <<Grp, C("quote")>> \o Sp
                 \o <<Grp>> \o W \o <<Grp>> \o Gap(30) \o Tr
PatMiddleInitial(k) == <<Bol, Grp>> \o W \o <<Grp>> \o Sp \o <<C("alpha"), Rp("dot", 0, 1)>>
                         \o Sp \o <<Grp>> \o W \o <<Grp>> \o Sp0
                         \o <<C(k), RpLazy("notdot", 0, Inf)>> \o Tr
PatStartDash(k) == <<Bol>> \o N2 \o Sp0 \o <<Rp(k, 0, 1)>> \o Sp0 \o Asst \o Tr
PatStart40 == <<Bol>> \o N2 \o Gap(40)
                \o <<Opt(<<L("serve"), Rp("s", 0, 1)>> \o Sp \o <<L("as")>> \o Sp)>>
                \o Asst \o Tr
PatServesAs == N2 \o Sp \o ServesAs \o Sp \o Asst \o Tr
PatColon == Asst \o Tr \o <<Rp("colsp", 1, Inf)>> \o N2
PatAfter == Asst \o Tr \o Sp \o N2
PatAs == N2 \o Gap(100) \o <<L("as")>> \o Sp \o Asst \o Tr
PatEmail == N2 \o <<L("'s")>> \o Sp \o <<L("email"), Rp("notbar", 0, 30), L("|")>>
              \o Sp0 \o <<Rp("nots", 0, Inf)>> \o Tr
PatAt == N2 \o Gap(100) \o Tr \o Sp \o <<L("at")>> \o Sp \o <<C("alpha")>>
PatOfAt == N2 \o Gap(100) \o Asst \o Tr \o Sp \o <<Alt(<< <<L("of")>>, <<L("at")>> >>)>>
PatEllipsis == N2 \o Gap(60) \o <<L("...")>> \o Gap(40) \o Asst \o Tr
PatNear(n) == N2 \o Gap(n) \o Asst \o Tr
PatNearAfter(n) == Asst \o Tr \o Gap(n) \o N2

\* SimplifiedTreasurerDetector.treasurer_name_patterns
treasurer_name_patterns ==
  { PatNickname, PatMiddleInitial("dash"), PatStartDash("dash"), PatStart40,
    PatServesAs, PatColon, PatAfter, PatAs, PatEmail, PatAt, PatOfAt,
    PatEllipsis, PatNear(40), PatNear(200), PatNearAfter(200) }

\* enhanced_patterns of extract_potential_treasurer_names; the dash class of
\* this file holds "-" and characters that are neither U+2013 nor U+2014
enhanced_patterns ==
  { PatNickname, PatMiddleInitial("hyphen"),
    N2 \o Sp \o <<Alt(<< <<L("current")>>, ServesAs >>)>> \o Sp \o Asst \o Tr,
    Asst \o Tr \o Sp \o <<Alt(<< <<L("since")>>, <<L("from")>> >>)>> \o Sp
      \o <<Rp("digit", 4, 4), RpLazy("notdot", 0, Inf)>> \o N2,
    N2 \o Sp \o <<L("appointed")>> \o Sp \o Asst \o Tr,
    N2 \o Gap(50) \o VpAnd \o Tr,
    VpAnd \o Tr \o Gap(50) \o N2,
    N2 \o Gap(100) \o <<L("title")>> \o Gap(50) \o Tr,
    <<L("title")>> \o Gap(50) \o Tr \o Gap(50) \o N2,
    PatAs, PatEmail, PatAt, PatOfAt, PatEllipsis,
    N3 \o Gap(50) \o Tr,
    Tr \o Gap(50) \o N3,
    NSuffix \o Gap(50) \o Tr,
    Tr \o Gap(50) \o NSuffix,
    N2 \o Gap(100) \o HeadOfTreasury,
    HeadOfTreasury \o Gap(100) \o N2,
    N2 \o Gap(100) \o TreasuryHead,
    TreasuryHead \o Gap(100) \o N2,
    N2 \o Gap(100) \o DirectorOfTreasury,
    DirectorOfTreasury \o Gap(100) \o N2,
    N2 \o Gap(100) \o VpTreasury,
    VpTreasury \o Gap(100) \o N2,
    N2 \o Gap(100) \o VicePresidentTreasury,
    VicePresidentTreasury \o Gap(100) \o N2,
    PatNear(200), PatNearAfter(200),
    PatStartDash("hyphen"), PatStart40, PatServesAs, PatColon, PatAfter,
    PatNear(40) }

(***************************************************************************)
(* RobustNameDetector                                                      *)
(***************************************************************************)
navigation_words ==
  { "about", "us", "contact", "home", "services", "products", "team",
    "leadership", "management", "executives", "careers", "investors",
    "news", "media", "press", "releases", "events", "resources",
    "support", "help", "privacy", "terms", "legal", "sitemap",
    "company", "corporate", "business", "enterprise", "solutions",
    "technologies", "systems", "communications", "consulting",
    "capital", "partners", "holdings", "group", "limited", "inc",
    "corporation", "incorporated", "international", "global",
    "regional", "national", "worldwide", "world", "america",
    "europe", "asia", "pacific", "atlantic", "north", "south",
    "east", "west", "central", "united", "states", "canada",
    "mexico", "latin", "american", "european", "asian" }

business_terms ==
  { "treasurer", "chief", "financial", "officer", "president", "vice",
    "executive", "director", "manager", "assistant", "senior",
    "principal", "partner", "founder", "co-founder", "ceo", "cfo",
    "cto", "cmo", "coo", "svp", "vp", "head", "lead", "supervisor",
    "coordinator", "specialist", "analyst", "consultant", "advisor",
    "representative", "associate", "intern", "trainee", "apprentice" }

\* the names corpus of the dictionary backend: the entries the texts use
all_names == { "jane", "mark", "priya", "robert", "lee" }

SeqSet(q) == {q[i] : i \in 1..Len(q)}
LowerWords(words) == {Lower(words[i]) : i \in 1..Len(words)}

\* re.sub(r'[""]', '', name)
RemoveQuotes(s) ==
  LET keep == [i \in 1..Len(s) |-> IF SubSeq(s, i, i) = "\"" THEN "" ELSE SubSeq(s, i, i)]
  IN  Join(keep)

_basic_structure_valid(name_clean, words) ==
  /\ Len(words) >= 2
  /\ \A i \in 1..Len(words) : IsUpperCh(SubSeq(words[i], 1, 1)) /\ Len(words[i]) >= 2
  /\ \A i \in 1..Len(name_clean) : SubSeq(name_clean, i, i) \notin DigitSet
  /\ Cardinality({i \in 1..Len(name_clean) :
                    /\ ~IsAlnumCh(SubSeq(name_clean, i, i))
                    /\ SubSeq(name_clean, i, i) \notin {" ", "'", "-"}}) <= 3

_contains_navigation_or_business_terms(words) ==
  \/ LowerWords(words) \cap navigation_words # {}
  \/ LowerWords(words) \cap business_terms # {}

\* re.findall(r'[A-Za-z]+', s): the maximal runs of letters
RECURSIVE AlphaRunsFrom(_, _)
AlphaRunsFrom(s, i) ==
  LET st == {j \in i..Len(s) : IsAlphaCh(SubSeq(s, j, j))}
  IN  IF st = {} THEN {}
      ELSE LET a  == SetMin(st)
               en == {j \in a..Len(s) : ~IsAlphaCh(SubSeq(s, j, j))}
               b  == IF en = {} THEN Len(s) ELSE SetMin(en) - 1
           IN  {SubSeq(s, a, b)} \cup AlphaRunsFrom(s, b + 1)

business_suffixes == {"corp", "inc", "llc", "ltd", "co", "company", "corporation"}

_is_company_name(name_clean, company_name) ==
  LET company_words == AlphaRunsFrom(Lower(company_name), 1)
      name_words    == LowerWords(Split(name_clean))
  IN  \/ name_words \subseteq company_words /\ company_words # {}
      \/ name_words \cap business_suffixes # {}

\* the recognizer is an external model: it is taken to label as PERSON the
\* strings all of whose words are dictionary names
_ner_validation(name_clean) ==
  LowerWords(Split(name_clean)) \subseteq all_names

_name_database_validation(words) ==
  LowerWords(words) \cap all_names # {}

IsTitleWord(w) ==
  /\ Len(w) >= 2
  /\ IsUpperCh(SubSeq(w, 1, 1))
  /\ \A i \in 2..Len(w) : SubSeq(w, i, i) \in LowerSet

\* the three name_patterns of _enhanced_regex_validation, for a string that
\* split() cut into exactly two words
MatchesNamePatterns(name_clean, words) ==
  \/ /\ IsTitleWord(words[1]) /\ IsTitleWord(words[2])
     /\ \A i \in 1..Len(name_clean) :
           IsAlphaCh(SubSeq(name_clean, i, i)) \/ SubSeq(name_clean, i, i) \in SpaceSet
  \/ /\ IsTitleWord(words[1])
     /\ Len(words[2]) >= 4
     /\ IsUpperCh(SubSeq(words[2], 1, 1))
     /\ SubSeq(words[2], 2, 2) = "'"
     /\ IsTitleWord(SubSeq(words[2], 3, Len(words[2])))

\* "true", "false", or "raise": compiling word_pattern fails with re.error
\* (its class holds the reversed range U+20AC-U+00C3)
_enhanced_regex_validation(name_clean, words) ==
  IF Len(words) # 2 THEN "false"
  ELSE IF MatchesNamePatterns(name_clean, words) THEN "true"
  ELSE "raise"

is_valid_person_name(name, company_name, spacy_available, nltk_available) ==
  IF Len(name) < 3 THEN "false"
  ELSE LET name_clean == Strip(RemoveQuotes(name))
           words      == Split(name_clean)
       IN  IF ~_basic_structure_valid(name_clean, words) THEN "false"
           ELSE IF _contains_navigation_or_business_terms(words) THEN "false"
           ELSE IF _is_company_name(name_clean, company_name) THEN "false"
           ELSE IF spacy_available /\ _ner_validation(name_clean) THEN "true"
           ELSE IF nltk_available /\ _name_database_validation(words) THEN "true"
           ELSE _enhanced_regex_validation(name_clean, words)

(***************************************************************************)
(* extract_potential_treasurer_names                                       *)
(***************************************************************************)
\* the name a match yields from its groups
NameOfGroups(groups) ==
  IF Len(groups) = 1 THEN Strip(groups[1])
  ELSE Strip(groups[1]) \o " " \o Strip(groups[2])

\* every name some match of some pattern yields, before validation
MatchedNames(content) ==
  UNION { {NameOfGroups(g) : g \in SeqSet(FindIter(p, content))} :
          p \in enhanced_patterns \cup treasurer_name_patterns }

\* the validation of the matched names: raised when validating some name
\* raises, else the set of names that pass (list(set(...)) keeps one of each)
ValidatedNames(matched, company_name, spacy_available, nltk_available) ==
  LET verdict == [n \in matched |->
                    is_valid_person_name(n, company_name, spacy_available, nltk_available)]
  IN  [raised |-> \E n \in DOMAIN verdict : verdict[n] = "raise",
       names  |-> {n \in DOMAIN verdict : verdict[n] = "true"}]

extract_potential_treasurer_names(content, company_name, spacy_available, nltk_available) ==
  ValidatedNames(MatchedNames(content), company_name, spacy_available, nltk_available)

(***************************************************************************)
(* SimplifiedTreasurerDetector (treasurer_extractor.py)                    *)
(***************************************************************************)
AnyStar == <<Rp("any", 0, Inf)>>
Cfo == <<L("cfo")>>
ChiefFinancialOfficer == <<L("chief")>> \o Sp \o <<L("financial")>> \o Sp \o <<L("officer")>>
SinceServes == <<WordB,
                 Alt(<< <<L("since")>>, <<L("serve"), Rp("s", 0, 1)>>,
                        <<L("appointed")>>, <<L("named")>> >>),
                 WordB>>

cfo_treasurer_patterns ==
  { Cfo \o Sp \o <<L("and")>> \o Sp \o Tr,
    ChiefFinancialOfficer \o Sp \o <<L("and")>> \o Sp \o Tr,
    Cfo \o Sp0 \o <<C("amp")>> \o Sp0 \o Tr,
    ChiefFinancialOfficer \o Sp0 \o <<C("amp")>> \o Sp0 \o Tr,
    ChiefFinancialOfficer \o AnyStar \o Tr \o AnyStar \o SinceServes,
    Cfo \o AnyStar \o Tr \o AnyStar \o SinceServes,
    Tr \o AnyStar \o ChiefFinancialOfficer \o AnyStar \o SinceServes,
    Tr \o AnyStar \o Cfo \o AnyStar \o SinceServes }

is_cfo_treasurer_combo(text) ==
  \E p \in cfo_treasurer_patterns : Search(p, Lower(text))

is_outdated_info(text) ==
  \E ind \in { "former treasurer", "past treasurer", "previously treasurer",
               "until 201", "until 202", "through 201", "through 202",
               "ended in 201", "ended in 202", "left in 201", "left in 202" } :
     Contains(Lower(text), ind)

(***************************************************************************)
(* IntelligentTreasurerSystem                                              *)
(***************************************************************************)
HIGH_CONFIDENCE_THRESHOLD == F(75)
\* the usable threshold where the medium one belongs
MEDIUM_CONFIDENCE_THRESHOLD_usable == F(45)
MEDIUM_CONFIDENCE_THRESHOLD == F(55)
USABLE_CONFIDENCE_THRESHOLD == F(45)

NoneVal == "<None>"

_is_definitive_cfo_treasurer_combo(content) ==
  LET content_lower == Lower(content)
      definitive_indicators ==
        { "cfo and treasurer", "chief financial officer and treasurer",
          "cfo & treasurer", "chief financial officer & treasurer",
          "serves as cfo and treasurer",
          "serves as chief financial officer and treasurer",
          "appointed cfo and treasurer",
          "appointed chief financial officer and treasurer",
          "dual role of cfo and treasurer",
          "dual role of chief financial officer and treasurer" }
      Cfoo == <<L("chief financial officer")>>
      together == AnyStar \o <<L("together")>>
      appointment_patterns ==
        { Cfo \o AnyStar \o Tr \o AnyStar \o <<L("appointed")>> \o together,
          Cfoo \o AnyStar \o Tr \o AnyStar \o <<L("appointed")>> \o together,
          <<L("appointed")>> \o AnyStar \o Cfo \o AnyStar \o Tr \o together,
          <<L("appointed")>> \o AnyStar \o Cfoo \o AnyStar \o Tr \o together,
          Cfo \o AnyStar \o <<L("also")>> \o AnyStar \o Tr,
          Cfoo \o AnyStar \o <<L("also")>> \o AnyStar \o Tr,
          Cfo \o AnyStar \o <<L("serves")>> \o AnyStar \o <<L("as")>> \o AnyStar \o Tr,
          Cfoo \o AnyStar \o <<L("serves")>> \o AnyStar \o <<L("as")>> \o AnyStar \o Tr,
          Cfo \o AnyStar \o <<L("dual")>> \o AnyStar \o <<L("role")>> \o AnyStar \o Tr,
          Cfoo \o AnyStar \o <<L("dual")>> \o AnyStar \o <<L("role")>> \o AnyStar \o Tr }
  IN  \/ /\ \E ind \in definitive_indicators : Contains(content_lower, ind)
         /\ ~Contains(content_lower, "separate treasurer")
         /\ ~Contains(content_lower, "treasurer department")
         /\ ~Contains(content_lower, "assistant treasurer")
         /\ ~Contains(content_lower, "treasurer since")
      \/ \E p \in appointment_patterns : Search(p, content_lower)

\* the position of the first case-insensitive occurrence of name, 0 if none
FindName(name, content) ==
  LET ln == Lower(name)
      lc == Lower(content)
      at == {i \in 1..(Len(lc) - Len(ln) + 1) : SubSeq(lc, i, i + Len(ln) - 1) = ln}
  IN  IF at = {} THEN 0 ELSE SetMin(at)

extract_context_around_name(name, content) ==
  LET m == FindName(name, content)
  IN  IF m = 0 THEN ""
      ELSE LET start == IF m - 100 < 1 THEN 1 ELSE m - 100
               end   == IF m + Len(name) - 1 + 100 > Len(content)
                        THEN Len(content) ELSE m + Len(name) - 1 + 100
           IN  Strip(SubSeq(content, start, end))

_is_definitely_outdated(context) ==
  \E ind \in { "former treasurer", "past treasurer", "previously treasurer",
               "until 2022", "until 2023", "through 2022", "through 2023",
               "left in 2022", "left in 2023", "ended in 2022", "ended in 2023",
               "resigned in 2022", "resigned in 2023",
               "retired in 2022", "retired in 2023" } :
     Contains(Lower(context), ind)

_is_high_quality_name(name, context) ==
  LET words         == Split(name)
      context_lower == Lower(context)
      name_lower    == Lower(name)
  IN  /\ Len(words) = 2
      /\ \A i \in 1..2 : IsUpperCh(SubSeq(words[i], 1, 1))
      /\ \E ind \in { name_lower \o " treasurer", "treasurer " \o name_lower,
                      name_lower \o " serves as treasurer",
                      "treasurer: " \o name_lower,
                      name_lower \o " appointed treasurer" } :
            Contains(context_lower, ind)

_is_low_quality_name(name) ==
  LET name_lower == Lower(name)
      words      == Split(name)
      title_suffixes == {"VP", "CFO", "CEO", "CTO", "COO", "SVP", "EVP"}
      place_names ==
        { "eden", "prairie", "minneapolis", "chicago", "new york", "los angeles",
          "san francisco", "atlanta", "boston", "dallas", "houston", "phoenix",
          "denver", "seattle", "portland", "miami", "orlando", "tampa",
          "nashville", "austin", "columbus", "cleveland", "detroit", "milwaukee",
          "rhode island", "texas tech", "las colinas", "orange county" }
      document_terms ==
        { "annual", "report", "table", "contents", "index", "appendix",
          "section", "chapter", "page", "document", "filing", "form",
          "current", "reports", "quarterly", "monthly", "weekly",
          "treasury", "department", "division", "group", "team",
          "fixed", "income", "equity", "bonds", "stocks", "securities",
          "financial", "services", "management", "consulting", "advisory",
          "proxy statements", "quarterly report", "annual report", "current reports",
          "our forms", "signature page", "document number", "filing date",
          "the reporting", "former foundation", "sec form", "table of" }
      business_entities ==
        { "subsidiary guarantors", "fund administration", "funds trust",
          "tf trust", "the fund", "common stock", "designated borrower",
          "this indenture", "and operations", "industrial controls",
          "td height", "ps advisors", "the frpc", "bunge thunderbird",
          "under armour", "morgan stanley", "goldman sachs",
          "pricewaterhousecoopers", "virtus stone", "general electric",
          "vick donald", "materion advanced", "se chemicals",
          "related manufacturing", "address of", "on june" }
      incomplete_words == {"of", "the", "and", "or", "in", "at", "to", "for", "with"}
      job_titles ==
        { "talent acquisition", "investor relations", "risk factors",
          "board memberships", "cio secretary", "board member",
          "proxy statements", "quarterly reports", "current reports" }
  IN  \/ Len(words) < 2
      \/ \E suf \in title_suffixes : EndsWith(name, suf)
      \/ Len(name) < 6
      \/ \E place \in place_names : Contains(name_lower, place)
      \/ \E term \in document_terms : Contains(name_lower, term)
      \/ \E entity \in business_entities : Contains(name_lower, entity)
      \/ Len(words) = 2 /\ \A i \in 1..2 : Lower(words[i]) \in incomplete_words
      \/ \E w \in {"title", "name", "position", "role", "duty"} : Contains(name_lower, w)
      \/ \E title \in job_titles : Contains(name_lower, title)

\* name_lower used as a regular expression: "." stands for any character
NameRe(name_lower) ==
  [i \in 1..Len(name_lower) |->
     IF SubSeq(name_lower, i, i) = "." THEN C("any") ELSE L(SubSeq(name_lower, i, i))]

_is_proper_treasurer_context(name, context) ==
  LET context_lower == Lower(context)
      nm == NameRe(Lower(name))
      X(w) == AnyStar \o <<L(w)>>
      treasurer_context_patterns ==
        { nm \o X("treasurer"),
          Tr \o AnyStar \o nm,
          nm \o X("serves") \o X("treasurer"),
          Tr \o AnyStar \o nm \o X("since"),
          nm \o X("appointed") \o X("treasurer"),
          Tr \o AnyStar \o nm \o X("appointed"),
          nm \o X("assistant") \o X("treasurer"),
          <<L("assistant")>> \o X("treasurer") \o AnyStar \o nm,
          Tr \o AnyStar \o nm \o X("vice") \o X("president"),
          <<L("vice")>> \o X("president") \o X("treasurer") \o AnyStar \o nm,
          nm \o X("vice") \o X("president") \o X("treasurer"),
          <<L("vice")>> \o X("president") \o AnyStar \o nm \o X("treasurer"),
          nm \o X("principal") \o X("accounting") \o X("officer") \o X("treasurer"),
          <<L("principal")>> \o X("accounting") \o X("officer") \o AnyStar \o nm
            \o X("treasurer") }
      treasurer_role_indicators ==
        { nm \o X("treasurer"),
          Tr \o AnyStar \o nm,
          nm \o X("assistant") \o X("treasurer"),
          <<L("assistant")>> \o X("treasurer") \o AnyStar \o nm }
  IN  \E p \in treasurer_context_patterns \cup treasurer_role_indicators :
         Search(p, context_lower)

source_factors ==
  [ leadership_page |-> F(25), sec_filing_search |-> F(20),
    linkedin_search |-> F(18), general_exec_search |-> F(15),
    treasurer_search |-> F(10), enhanced_treasurer_search |-> F(10),
    broader_treasury_search |-> F(12), exec_team_search |-> F(12),
    company_treasury_search |-> F(5), recent_treasurer_search |-> F(10) ]

business_entity_indicators ==
  { "subsidiary", "guarantors", "fund", "trust", "stock", "borrower",
    "indenture", "operations", "controls", "height", "advisors",
    "thunderbird", "armour", "stanley", "sachs", "pricewaterhouse",
    "stone", "electric", "chemicals", "manufacturing", "address" }

\* one "if cond: confidence += k/100" or "confidence -= k/100" with its tag
Bonus(st, cond, k) ==
  IF cond THEN [st EXCEPT !.confidence = FAdd(st.confidence, F(k))] ELSE st
Penalty(st, cond, k, tag) ==
  IF cond THEN [confidence |-> FSub(st.confidence, F(k)),
                issues |-> IF tag = "" THEN st.issues ELSE Append(st.issues, tag)]
  ELSE st

\* the "if" statements of the scorer in source order: up is TRUE for
\* "confidence += k/100" and FALSE for "confidence -= k/100" with its tag
ScoreSteps(name, context, source_name, cl) ==
  << [up |-> TRUE, cond |-> Contains(cl, "current") \/ Contains(cl, "serves as"),
      k |-> 10, tag |-> ""],
     [up |-> TRUE, cond |-> Contains(cl, "assistant treasurer"), k |-> 8, tag |-> ""],
     [up |-> TRUE, cond |-> Contains(cl, "treasurer") /\ Contains(cl, "since"),
      k |-> 15, tag |-> ""],
     [up |-> TRUE, cond |-> Contains(cl, "appointed") /\ Contains(cl, "treasurer"),
      k |-> 12, tag |-> ""],
     [up |-> TRUE,
      cond |-> \E w \in {"executive", "officer", "management"} : Contains(cl, w),
      k |-> 3, tag |-> ""],
     [up |-> TRUE, cond |-> source_name = "leadership_page", k |-> 10, tag |-> ""],
     [up |-> TRUE, cond |-> _is_proper_treasurer_context(name, context),
      k |-> 20, tag |-> ""],
     [up |-> FALSE, cond |-> is_outdated_info(context),
      k |-> 8, tag |-> "potentially_outdated"],
     [up |-> FALSE, cond |-> _is_definitely_outdated(context),
      k |-> 25, tag |-> "definitely_outdated"],
     [up |-> FALSE, cond |-> Contains(cl, "linkedin"), k |-> 2, tag |-> "linkedin_snippet"],
     [up |-> FALSE,
      cond |-> \E w \in {"former", "past", "previous", "until"} : Contains(cl, w),
      k |-> 12, tag |-> "past_role_indicator"],
     [up |-> FALSE, cond |-> Contains(cl, "cfo") /\ Contains(cl, "treasurer"),
      k |-> 3, tag |-> "dual_role_mention"],
     [up |-> FALSE,
      cond |-> source_name \in {"treasurer_search", "company_treasury_search"},
      k |-> 2, tag |-> "search_result_uncertainty"],
     [up |-> TRUE, cond |-> _is_high_quality_name(name, context), k |-> 8, tag |-> ""],
     [up |-> FALSE, cond |-> _is_low_quality_name(name), k |-> 20, tag |-> ""],
     [up |-> FALSE,
      cond |-> \E ind \in business_entity_indicators : Contains(Lower(name), ind),
      k |-> 15, tag |-> "business_entity"] >>

RECURSIVE RunSteps(_, _, _)
RunSteps(st, steps, i) ==
  IF i > Len(steps) THEN st
  ELSE RunSteps(IF steps[i].up THEN Bonus(st, steps[i].cond, steps[i].k)
                ELSE Penalty(st, steps[i].cond, steps[i].k, steps[i].tag),
                steps, i + 1)

assess_candidate_confidence(name, context, source_name) ==
  LET Clipped(st) == [confidence |-> Clip(st.confidence), issues |-> st.issues]
      Factor(fs) == IF source_name \in DOMAIN fs THEN fs[source_name] ELSE F(5)
  IN  Clipped(RunSteps([confidence |-> FAdd(F(15), Factor(source_factors)),
                        issues |-> <<>>],
                       ScoreSteps(name, context, source_name, Lower(context)), 1))

\* no text of the model holds a profile URL
extract_linkedin_url(name, content) == NoneVal

\* the empty sequence when the mention is dropped (None), else the candidate
analyze_treasurer_mention(name, content, company_name, source_name) ==
  LET Mention(context, a) ==
        IF FLt(a.confidence, F(30)) THEN <<>>
        ELSE << [ name |-> name,
                  confidence |-> a.confidence,
                  source |-> source_name,
                  evidence |-> IF Len(context) > 200 THEN Prefix(context, 200) \o "..."
                               ELSE context,
                  potential_issues |-> a.issues,
                  linkedin_url |-> extract_linkedin_url(name, content) ] >>
      Scored(context) ==
        Mention(context, assess_candidate_confidence(name, context, source_name))
  IN  Scored(extract_context_around_name(name, content))

\* potential_names is the order in which list(set(...)) yields the names
RECURSIVE MentionsOf(_, _, _, _)
MentionsOf(potential_names, content, company_name, source_name) ==
  IF Len(potential_names) = 0 THEN <<>>
  ELSE analyze_treasurer_mention(Head(potential_names), content, company_name, source_name)
         \o MentionsOf(Tail(potential_names), content, company_name, source_name)

\* a classifier that finds no blob definitive
IsDefinitiveBlob_never(content) == FALSE

IsDefinitiveBlob(content) ==
  is_cfo_treasurer_combo(content) /\ _is_definitive_cfo_treasurer_combo(content)

analyze_source_for_candidates(content, company_name, source_name, potential_names) ==
  IF IsDefinitiveBlob(content) THEN <<>>
  ELSE MentionsOf(potential_names, content, company_name, source_name)

\* every candidate of the source appended, seen before or not
MergeCandidates_append_all(acc, source_candidates, source_name) ==
  [seen_names |-> acc.seen_names,
   candidates |-> acc.candidates
                    \o SelectSeq(source_candidates,
                                 LAMBDA c : ~_is_low_quality_name(c.name))]

\* the body of the loop over source_candidates in extract_candidates_from_sources
RECURSIVE MergeCandidates(_, _, _)
MergeCandidates(acc, source_candidates, source_name) ==
  IF Len(source_candidates) = 0 THEN acc
  ELSE LET candidate == Head(source_candidates)
           rest      == Tail(source_candidates)
           name_key  == Strip(Lower(candidate.name))
           upd(c) == IF Strip(Lower(c.name)) = name_key
                     THEN [c EXCEPT
                             !.evidence = c.evidence \o " | Additional from " \o source_name
                                            \o ": " \o Prefix(candidate.evidence, 100) \o "...",
                             !.confidence = FMax(c.confidence, candidate.confidence)]
                     ELSE c
       IN  IF _is_low_quality_name(candidate.name)
           THEN MergeCandidates(acc, rest, source_name)
           ELSE IF name_key \notin acc.seen_names
           THEN MergeCandidates([seen_names |-> acc.seen_names \cup {name_key},
                                 candidates |-> Append(acc.candidates, candidate)],
                                rest, source_name)
           ELSE MergeCandidates([seen_names |-> acc.seen_names,
                                 candidates |-> [i \in 1..Len(acc.candidates) |->
                                                   upd(acc.candidates[i])]],
                                rest, source_name)

\* a descending sort that puts a later equal score first
RECURSIVE SortByConfidence_ties_reversed(_)
SortByConfidence_ties_reversed(cands) ==
  IF Len(cands) <= 1 THEN cands
  ELSE LET last   == cands[Len(cands)]
           sorted == SortByConfidence_ties_reversed(SubSeq(cands, 1, Len(cands) - 1))
           k      == Cardinality({i \in 1..Len(sorted) :
                                    FGt(sorted[i].confidence, last.confidence)})
       IN  SubSeq(sorted, 1, k) \o <<last>> \o SubSeq(sorted, k + 1, Len(sorted))

\* candidates.sort(key=lambda c: c.confidence, reverse=True): stable
RECURSIVE SortByConfidence(_)
SortByConfidence(cands) ==
  IF Len(cands) <= 1 THEN cands
  ELSE LET last   == cands[Len(cands)]
           sorted == SortByConfidence(SubSeq(cands, 1, Len(cands) - 1))
           k      == Cardinality({i \in 1..Len(sorted) :
                                    FGe(sorted[i].confidence, last.confidence)})
       IN  SubSeq(sorted, 1, k) \o <<last>> \o SubSeq(sorted, k + 1, Len(sorted))

RECURSIVE JoinNames(_)
JoinNames(cands) ==
  IF Len(cands) = 0 THEN ""
  ELSE IF Len(cands) = 1 THEN cands[1].name
  ELSE cands[1].name \o ", " \o JoinNames(Tail(cands))

DetectionResult(status, primary, cands, level, recommendation, strategy) ==
  [ status |-> status, primary_treasurer |-> primary, candidates |-> cands,
    confidence_level |-> level, recommendation |-> recommendation,
    email_strategy |-> strategy ]

\* an empty list falling through to the last branch
none_found_result_fallthrough ==
  DetectionResult("uncertain", NoneVal, <<>>, "low",
                  "Treasurer information unclear - contact company for confirmation",
                  "use_cfo_only")

none_found_result ==
  DetectionResult("none_found", NoneVal, <<>>, "low",
                  "Contact company directly for treasurer information",
                  "use_cfo_only")

\* the tag looked for on the top candidate only
has_cfo_combo_top_only(candidates) ==
  "dual_role_mention" \in SeqSet(candidates[1].potential_issues)

has_cfo_combo(candidates) ==
  \E i \in 1..Len(candidates) :
     "dual_role_mention" \in SeqSet(candidates[i].potential_issues)

\* the runner-up clause dropped
single_high_confidence_alone(candidates) ==
  /\ FGe(candidates[1].confidence, HIGH_CONFIDENCE_THRESHOLD)
  /\ Len(candidates) = 1

single_high_confidence(candidates) ==
  /\ FGe(candidates[1].confidence, HIGH_CONFIDENCE_THRESHOLD)
  /\ \/ Len(candidates) = 1
     \/ FLt(candidates[2].confidence, MEDIUM_CONFIDENCE_THRESHOLD)

\* the high threshold where the medium one belongs
single_medium_clear_winner_high(candidates) ==
  /\ FGe(candidates[1].confidence, HIGH_CONFIDENCE_THRESHOLD)
  /\ Len(candidates) = 1

single_medium_clear_winner(candidates) ==
  /\ FGe(candidates[1].confidence, MEDIUM_CONFIDENCE_THRESHOLD)
  /\ Len(candidates) = 1

\* the gap of 0.15 the code used before
single_medium_significant_gap_wide(candidates) ==
  /\ FGe(candidates[1].confidence, MEDIUM_CONFIDENCE_THRESHOLD)
  /\ Len(candidates) > 1
  /\ FGe(FSub(candidates[1].confidence, candidates[2].confidence), F(15))

single_medium_significant_gap(candidates) ==
  /\ FGe(candidates[1].confidence, MEDIUM_CONFIDENCE_THRESHOLD)
  /\ Len(candidates) > 1
  /\ FGe(FSub(candidates[1].confidence, candidates[2].confidence), F(10))

\* the high threshold where the usable one belongs
IsViable_high(c) == FGe(c.confidence, HIGH_CONFIDENCE_THRESHOLD)
IsViable(c) == FGe(c.confidence, USABLE_CONFIDENCE_THRESHOLD)
\* the medium threshold where the usable one belongs
IsViableMedium(c) == FGe(c.confidence, MEDIUM_CONFIDENCE_THRESHOLD)
viable_candidates_medium(candidates) == SelectSeq(candidates, IsViableMedium)

viable_candidates(candidates) == SelectSeq(candidates, IsViable)

has_major_issues(top_candidate) ==
  \E i \in 1..Len(top_candidate.potential_issues) :
     top_candidate.potential_issues[i] \in {"past_role_indicator", "potentially_outdated"}

build_detection_result(candidates, company_name) ==
  IF Len(candidates) = 0 THEN none_found_result
  ELSE IF has_cfo_combo(candidates)
  THEN DetectionResult("cfo_treasurer_combo", "same", candidates, "high",
                       "CFO handles treasurer duties", "use_cfo_only")
  ELSE
  LET top_candidate == candidates[1]
      viable == viable_candidates(candidates)
  IN
  IF single_high_confidence(candidates)
  THEN DetectionResult("single_confident", top_candidate.name, candidates, "high",
                       "High confidence: " \o top_candidate.name \o " is the treasurer",
                       "use_treasurer")
  ELSE IF single_medium_clear_winner(candidates)
  THEN DetectionResult("single_confident", top_candidate.name, candidates, "medium",
                       "Medium confidence: " \o top_candidate.name
                         \o " is likely the treasurer",
                       "use_treasurer")
  ELSE IF single_medium_significant_gap(candidates)
  THEN DetectionResult("single_confident", top_candidate.name, candidates, "medium",
                       "Likely treasurer: " \o top_candidate.name
                         \o " (significant confidence gap)",
                       "use_treasurer")
  ELSE IF Len(viable) > 1
  THEN DetectionResult("multiple_candidates", NoneVal, candidates, "medium",
                       "Multiple possible treasurers found: "
                         \o JoinNames(SubSeq(viable, 1,
                                             IF Len(viable) < 3 THEN Len(viable) ELSE 3))
                         \o " - review LinkedIn profiles to verify",
                       "use_cfo_only")
  ELSE IF FGe(top_candidate.confidence, MEDIUM_CONFIDENCE_THRESHOLD)
  THEN DetectionResult("uncertain", top_candidate.name, candidates, "medium",
                       "Likely treasurer: " \o top_candidate.name
                         \o " (verify with LinkedIn profile)",
                       IF has_major_issues(top_candidate)
                       THEN "use_cfo_only" ELSE "use_treasurer")
  ELSE DetectionResult("uncertain", NoneVal, candidates, "low",
                       "Treasurer information unclear - contact company for confirmation",
                       "use_cfo_only")

(***************************************************************************)
(* The run of detect_treasurer_candidates for one company.                 *)
(***************************************************************************)
CompanyName == "Acme Corp"

\* the keys of the sources dict, in the order gather_treasurer_data sets them
Channels ==
  << "leadership_page", "general_exec_search", "treasurer_search",
     "company_treasury_search", "enhanced_treasurer_search", "sec_filing_search",
     "recent_treasurer_search", "linkedin_search", "broader_treasury_search",
     "exec_team_search" >>

\* what the company's leadership page may read
PageTexts ==
  << "Jane Doe, Vice President and Treasurer",
     "Jane A. Doe ~ Vice President and Treasurer, appointed 2022.",
     "Jane Doe is the CFO and Treasurer",
     "Jane Doe is the CFO and Treasurer. Mark Lee is assistant treasurer.",
     "Mark Lee serves as Treasurer since 2023.",
     "Treasurer: Mark Lee. Treasurer: Priya Shah",
     "Mary Page serves as Treasurer" >>

\* what every search may answer
SnippetTexts ==
  << "Mark Lee serves as Treasurer since 2023.",
     "Treasurer: Jane Doe",
     "Priya Shah, Treasurer" >>

\* what the searches of some channels may answer besides
ExtraTexts(ci) ==
  IF ci = 2 THEN {"former treasurer Mark Lee", "Jane Doe is CFO. Priya Shah is Treasurer."}
  ELSE IF ci = 3 THEN {"Treasurer: Mark Lee. Treasurer: Priya Shah",
                       "Mary Page serves as Treasurer"}
  ELSE IF ci = 6 THEN {"Jane Doe is the CFO and Treasurer", "former treasurer Mark Lee"}
  ELSE IF ci = 10 THEN {"Treasurer JANE DOE"}
  ELSE {}

RECURSIVE SetToSeq(_)
SetToSeq(S) ==
  IF S = {} THEN <<>>
  ELSE LET x == CHOOSE y \in S : TRUE IN <<x>> \o SetToSeq(S \ {x})

AllTexts ==
  SetToSeq(SeqSet(PageTexts) \cup SeqSet(SnippetTexts)
             \cup UNION {ExtraTexts(ci) : ci \in 1..Len(Channels)})
TextIndex(t) == CHOOSE i \in 1..Len(AllTexts) : AllTexts[i] = t

\* the texts channel number ci may return
TextsOf(ci) ==
  IF ci = 1 THEN SeqSet(PageTexts) ELSE SeqSet(SnippetTexts) \cup ExtraTexts(ci)

\* <<Op(i), ..., Op(n)>>
RECURSIVE Tabulate(_, _, _)
Tabulate(Op(_), i, n) == IF i > n THEN <<>> ELSE <<Op(i)>> \o Tabulate(Op, i + 1, n)

\* all orders in which a set can be iterated
RECURSIVE Perms(_)
Perms(S) ==
  IF S = {} THEN {<<>>}
  ELSE UNION { {<<x>> \o q : q \in Perms(S \ {x})} : x \in S }

Flags == << <<FALSE, FALSE>>, <<FALSE, TRUE>>, <<TRUE, FALSE>>, <<TRUE, TRUE>> >>
FlagIndex(sp, nl) == CHOOSE f \in 1..4 : Flags[f] = <<sp, nl>>

(***************************************************************************)
(* The detector is deterministic per (channel, text, name): its answers    *)
(* are tabulated once, by text number, channel number and name number;     *)
(* mention[ci][ti][k] is what analyze_source_for_candidates yields for the *)
(* k-th matched name alone, so a source's list is the concatenation of its *)
(* names' entries in the order of iteration; key[ti][k] is the name_key of *)
(* the k-th matched name and low[ti][k] the answer of _is_low_quality_name *)
(* for it.                                                                 *)
(***************************************************************************)
DetectorTable ==
  LET nt == Len(AllTexts)
      Checked(m, v) ==
        [raised |-> v.raised,
         names  |-> SetToSeq({k \in 1..Len(m) : m[k] \in v.names})]
      Names(matched) ==
        Tabulate(LAMBDA f :
          Tabulate(LAMBDA ti :
            Checked(matched[ti],
                    ValidatedNames(SeqSet(matched[ti]), CompanyName,
                                   Flags[f][1], Flags[f][2])),
            1, nt), 1, 4)
      Used(names, ti, k) ==
        \E f \in 1..4 : \E j \in 1..Len(names[f][ti].names) :
           names[f][ti].names[j] = k
      Mention(matched, names) ==
        Tabulate(LAMBDA ci :
          Tabulate(LAMBDA ti :
            Tabulate(LAMBDA k :
              IF AllTexts[ti] \in TextsOf(ci) /\ Used(names, ti, k)
              THEN analyze_source_for_candidates(AllTexts[ti], CompanyName,
                                                 Channels[ci], <<matched[ti][k]>>)
              ELSE <<>>,
              1, Len(matched[ti])), 1, nt), 1, Len(Channels))
      Table(matched, names) ==
        [matched    |-> matched,
         definitive |-> Tabulate(LAMBDA ti : IsDefinitiveBlob(AllTexts[ti]), 1, nt),
         names      |-> names,
         key        |-> Tabulate(LAMBDA ti :
                          Tabulate(LAMBDA k : Strip(Lower(matched[ti][k])),
                                   1, Len(matched[ti])), 1, nt),
         low        |-> Tabulate(LAMBDA ti :
                          Tabulate(LAMBDA k : _is_low_quality_name(matched[ti][k]),
                                   1, Len(matched[ti])), 1, nt),
         mention    |-> Mention(matched, names)]
      Matched(matched) == Table(matched, Names(matched))
  IN  Matched(Tabulate(LAMBDA ti : SetToSeq(MatchedNames(AllTexts[ti])), 1, nt))

\* analyze_source_for_candidates read off the table: text number ti on
\* channel number ci, its names taken in the order potential_names
RECURSIVE Flatten(_)
Flatten(qs) == IF Len(qs) = 0 THEN <<>> ELSE Head(qs) \o Flatten(Tail(qs))
SourceCandidates(tab, ci, ti, potential_names) ==
  Flatten([j \in 1..Len(potential_names) |-> tab.mention[ci][ti][potential_names[j]]])

\* source_candidates of every channel, none for an empty blob
RawCandidates(tab, srcs, orders) ==
  [i \in 1..Len(srcs) |->
     IF srcs[i] = "" THEN <<>>
     ELSE SourceCandidates(tab, i, TextIndex(srcs[i]), orders[i])]

\* the loop of extract_candidates_from_sources from source number i on
RECURSIVE AnalyzeSources(_, _, _, _, _)
AnalyzeSources(tab, srcs, orders, i, acc) ==
  IF i > Len(srcs) THEN acc
  ELSE IF srcs[i] = "" THEN AnalyzeSources(tab, srcs, orders, i + 1, acc)
  ELSE AnalyzeSources(tab, srcs, orders, i + 1,
         MergeCandidates(acc,
                         SourceCandidates(tab, i, TextIndex(srcs[i]), orders[i]),
                         Channels[i]))

extract_candidates_from_sources(tab, srcs, orders) ==
  SortByConfidence(
    AnalyzeSources(tab, srcs, orders, 1,
                   [seen_names |-> {}, candidates |-> <<>>]).candidates)

\* one element of each set of the sequence ss
RECURSIVE Product(_)
Product(ss) ==
  IF Len(ss) = 0 THEN {<<>>}
  ELSE {<<x>> \o r : x \in Head(ss), r \in Product(Tail(ss))}

VARIABLES
  pc,               \* where detect_treasurer_candidates stands
  sources,          \* sources[i] is the blob stored under key Channels[i]
  failed,           \* the channels whose fetch raised
  raw,              \* raw[i] is the source_candidates list of channel i
  candidates,       \* the aggregated candidate list
  result,           \* the TreasurerDetectionResult
  scored,           \* one name scored in two contexts, see SpecScore
  extracted,        \* one blob and the names extracted from it, see SpecNames
  mail,             \* one run of the email scraper, see SpecEmail
  filing,           \* one run of the facility extractor, see SpecRobust
  SPACY_AVAILABLE,  \* the module flags set at import
  NLTK_AVAILABLE,
  table             \* DetectorTable

\* the variables of the specifications of single components
aside == <<extracted, mail, filing>>
AsideIdle == extracted = NoneVal /\ mail = NoneVal /\ filing = NoneVal

vars == <<pc, sources, failed, raw, candidates, result, scored, SPACY_AVAILABLE,
          NLTK_AVAILABLE, table, aside>>

NoResult == DetectionResult(NoneVal, NoneVal, <<>>, NoneVal, NoneVal, NoneVal)

Init ==
  /\ table = DetectorTable
  /\ SPACY_AVAILABLE \in BOOLEAN
  /\ NLTK_AVAILABLE \in BOOLEAN
  /\ pc = "gather"
  /\ sources = <<>>
  /\ failed = {}
  /\ raw = <<>>
  /\ candidates = <<>>
  /\ result = NoResult
  /\ scored = NoneVal
  /\ AsideIdle

Active == Cardinality({i \in 1..Len(sources) : sources[i] # ""}) + Cardinality(failed)
AllFailed == failed = {Channels[i] : i \in 1..Len(sources)}
AfterFetch == IF Len(sources) + 1 = Len(Channels) THEN "extract" ELSE "gather"

\* one try block of gather_treasurer_data whose fetch returns text
FetchReturns(text) ==
  /\ pc = "gather"
  /\ text \in TextsOf(Len(sources) + 1) \cup {""}
  /\ text # "" => Active < MaxActive
  /\ sources' = Append(sources, text)
  /\ pc' = AfterFetch
  /\ UNCHANGED <<failed, raw, candidates, result, scored, SPACY_AVAILABLE, NLTK_AVAILABLE,
               table, aside>>

\* a fetch that raises with no except clause around it
FetchRaises_uncaught ==
  /\ pc = "gather"
  /\ Active < MaxActive \/ AllFailed
  /\ failed' = failed \cup {Channels[Len(sources) + 1]}
  /\ pc' = "raised"
  /\ UNCHANGED <<sources, raw, candidates, result, scored, SPACY_AVAILABLE, NLTK_AVAILABLE,
                 table, aside>>

\* one try block of gather_treasurer_data whose fetch raises
FetchRaises ==
  /\ pc = "gather"
  /\ Active < MaxActive \/ AllFailed
  /\ sources' = Append(sources, "")
  /\ failed' = failed \cup {Channels[Len(sources) + 1]}
  /\ pc' = AfterFetch
  /\ UNCHANGED <<raw, candidates, result, scored, SPACY_AVAILABLE, NLTK_AVAILABLE,
               table, aside>>

\* extract_candidates_from_sources(sources, company_name), sort included; the
\* re.error of the name validator is not caught anywhere
ExtractCandidates ==
  /\ pc = "extract"
  /\ LET f == FlagIndex(SPACY_AVAILABLE, NLTK_AVAILABLE)
         Names(i) == table.names[f][TextIndex(sources[i])]
         live == {i \in 1..Len(sources) :
                    sources[i] # "" /\ ~table.definitive[TextIndex(sources[i])]}
     IN  IF \E i \in live : Names(i).raised
         THEN pc' = "raised" /\ UNCHANGED <<raw, candidates>>
         ELSE /\ \E orders \in Product([i \in 1..Len(sources) |->
                                         IF i \in live THEN Perms(SeqSet(Names(i).names))
                                         ELSE {<<>>}]) :
                   /\ raw' = RawCandidates(table, sources, orders)
                   /\ candidates' = extract_candidates_from_sources(table, sources, orders)
              /\ pc' = "decide"
  /\ UNCHANGED <<sources, failed, result, scored, SPACY_AVAILABLE, NLTK_AVAILABLE,
               table, aside>>

\* build_detection_result(candidates, company_name) and the return
BuildResult ==
  /\ pc = "decide"
  /\ result' = build_detection_result(candidates, CompanyName)
  /\ pc' = "done"
  /\ UNCHANGED <<sources, failed, raw, candidates, scored, SPACY_AVAILABLE, NLTK_AVAILABLE,
               table, aside>>

Next ==
  \/ \E text \in SeqSet(AllTexts) \cup {""} : FetchReturns(text)
  \/ FetchRaises
  \/ ExtractCandidates
  \/ BuildResult

Spec == Init /\ [][Next]_vars
\* the guidance with the primary passed on whatever the strategy
email_guidance_any_primary(res) ==
  [ strategy |-> res.email_strategy,
    treasurer_name |-> res.primary_treasurer,
    fallback_reason |-> res.recommendation ]

\* the 'email_guidance' entry of get_intelligent_treasurer_info
email_guidance(res) ==
  [ strategy |-> res.email_strategy,
    treasurer_name |-> IF res.email_strategy = "use_treasurer"
                       THEN res.primary_treasurer ELSE NoneVal,
    fallback_reason |-> res.recommendation ]

(***************************************************************************)
(* The decision engine on its own: build_detection_result applied to the   *)
(* candidate lists aggregation can hand it (ranked, one entry per name,    *)
(* scores the scorer can produce, none below the floor).                   *)
(***************************************************************************)
DecideNames == <<"Mark Lee", "Priya Shah", "Jane Doe", "Robert Nelson">>

\* scores of assess_candidate_confidence at and around the thresholds
ConfGrid ==
  { [c |-> 30, e |-> -320], [c |-> 45, e |-> -1280], [c |-> 45, e |-> 320],
    [c |-> 52, e |-> 512], [c |-> 55, e |-> -1920], [c |-> 55, e |-> 1280],
    [c |-> 58, e |-> -1152], [c |-> 65, e |-> 640], [c |-> 68, e |-> 1408],
    [c |-> 75, e |-> -3200], [c |-> 75, e |-> 0], [c |-> 85, e |-> -640] }

IssueChoices == { <<>>, <<"dual_role_mention">>, <<"past_role_indicator">> }

\* the ranked list with the given scores and issues, rank i named DecideNames[i]
RankedList(n, conf, iss) ==
  [ i \in 1..n |-> [ name |-> DecideNames[i], confidence |-> conf[i],
                     source |-> "treasurer_search", evidence |-> "",
                     potential_issues |-> iss[i], linkedin_url |-> NoneVal ] ]

InitDecide ==
  /\ pc = "decide"
  /\ \E n \in 0..MaxCands :
       \E conf \in [1..n -> ConfGrid] :
          /\ \A i \in 1..(n - 1) : FGe(conf[i], conf[i + 1])
          /\ \E iss \in [1..n -> IssueChoices] : candidates = RankedList(n, conf, iss)
  /\ sources = <<>>
  /\ failed = {}
  /\ raw = <<>>
  /\ result = NoResult
  /\ scored = NoneVal
  /\ AsideIdle
  /\ SPACY_AVAILABLE = FALSE
  /\ NLTK_AVAILABLE = FALSE
  /\ table = <<>>

NextDecide == BuildResult

SpecDecide == InitDecide /\ [][NextDecide]_vars
(***************************************************************************)
(* The scorer on its own: assess_candidate_confidence applied to one name  *)
(* in two contexts, the first on the leadership page and holding the       *)
(* phrase "serves as Treasurer since 2023", the second on a search channel *)
(* and without date wording.  Both contexts carry the same further cues.   *)
(***************************************************************************)
\* an ordinary name, a name _is_low_quality_name rejects, and one that is a
\* business entity besides
ScoreNames == {"Mark Lee", "Mary Page", "Stanley Page"}
ScoreChannels ==
  {"general_exec_search", "sec_filing_search", "treasurer_search", "linkedin_search"}
ContextCues == <<"former treasurer", "CFO", "linkedin", "appointed">>

RECURSIVE JoinCues(_, _)
JoinCues(cues, i) ==
  IF i > Len(ContextCues) THEN ""
  ELSE (IF i \in cues THEN "; " \o ContextCues[i] ELSE "") \o JoinCues(cues, i + 1)

\* the snippet around the name, or one the name is missing from
SearchContext(name, mentioned, cues) ==
  (IF mentioned THEN name \o ", Treasurer" ELSE "Treasurer") \o JoinCues(cues, 1)
PageContext(name, mentioned, cues) ==
  SearchContext(name, mentioned, cues) \o "; serves as Treasurer since 2023"

InitScore ==
  /\ pc = "score"
  /\ \E name \in ScoreNames, mentioned \in BOOLEAN, channel \in ScoreChannels,
        cues \in SUBSET (1..Len(ContextCues)) :
        scored = [ name |-> name, channel |-> channel,
                   page_context |-> PageContext(name, mentioned, cues),
                   search_context |-> SearchContext(name, mentioned, cues),
                   page |-> NoneVal, search |-> NoneVal ]
  /\ AsideIdle
  /\ sources = <<>>
  /\ failed = {}
  /\ raw = <<>>
  /\ candidates = <<>>
  /\ result = NoResult
  /\ SPACY_AVAILABLE = FALSE
  /\ NLTK_AVAILABLE = FALSE
  /\ table = <<>>

\* assess_candidate_confidence on both contexts
ApplyScore ==
  /\ pc = "score"
  /\ scored' = [scored EXCEPT
                  !.page = assess_candidate_confidence(scored.name, scored.page_context,
                                                       "leadership_page"),
                  !.search = assess_candidate_confidence(scored.name, scored.search_context,
                                                         scored.channel)]
  /\ pc' = "scored"
  /\ UNCHANGED <<sources, failed, raw, candidates, result, SPACY_AVAILABLE, NLTK_AVAILABLE,
                 table, aside>>

NextScore == ApplyScore

SpecScore == InitScore /\ [][NextScore]_vars
(***************************************************************************)
(* The extractor on its own: extract_potential_treasurer_names applied to  *)
(* one blob under each setting of the two backend flags.                   *)
(***************************************************************************)
\* the texts of the channels and two with a middle name and a suffix
NameTexts ==
  SeqSet(AllTexts) \cup {"Robert Van Nelson, Treasurer", "Robert Nelson Jr, Treasurer"}

InitNames ==
  /\ pc = "names"
  /\ \E content \in NameTexts : extracted = [content |-> content, names |-> NoneVal]
  /\ mail = NoneVal
  /\ filing = NoneVal
  /\ SPACY_AVAILABLE \in BOOLEAN
  /\ NLTK_AVAILABLE \in BOOLEAN
  /\ sources = <<>>
  /\ failed = {}
  /\ raw = <<>>
  /\ candidates = <<>>
  /\ result = NoResult
  /\ scored = NoneVal
  /\ table = <<>>

\* extract_potential_treasurer_names(content, company_name)
ExtractNames ==
  /\ pc = "names"
  /\ extracted' = [extracted EXCEPT
                     !.names = extract_potential_treasurer_names(
                                 extracted.content, CompanyName,
                                 SPACY_AVAILABLE, NLTK_AVAILABLE)]
  /\ pc' = "named"
  /\ UNCHANGED <<sources, failed, raw, candidates, result, scored, SPACY_AVAILABLE,
                 NLTK_AVAILABLE, table, mail, filing>>

NextNames == ExtractNames

SpecNames == InitNames /\ [][NextNames]_vars
(***************************************************************************)
(* The email scraper of backend/intelligent_email_scraper.py with the      *)
(* helpers of backend/email_scraper.py.  A Python value whose type decides *)
(* what the code does with it is tagged: a str, None, a tuple, a list, or  *)
(* a dict held as its keys in insertion order.                             *)
(***************************************************************************)
PyStr(s) == [type |-> "str", items |-> <<s>>]
PyNone == [type |-> "None", items |-> <<>>]
PyTuple(items) == [type |-> "tuple", items |-> items]
PyList(items) == [type |-> "list", items |-> items]
PyDict(keys) == [type |-> "dict", items |-> keys]
\* an exception that leaves the function
Raised(exception) == [type |-> "raised", items |-> <<exception>>]
IsRaised(v) == v.type = "raised"

\* bool(v)
Truthy(v) ==
  IF v.type = "None" THEN FALSE
  ELSE IF v.type = "str" THEN v.items[1] # ""
  ELSE Len(v.items) > 0

Ch(s, i) == SubSeq(s, i, i)
\* [a-zA-Z0-9_.+-]
LocalCh(ch) == IsAlnumCh(ch) \/ ch \in {"_", ".", "+", "-"}
\* [a-zA-Z0-9-]
HostCh(ch) == IsAlnumCh(ch) \/ ch = "-"
\* [a-zA-Z.'-]
NameCh(ch) == IsAlphaCh(ch) \/ ch \in {".", "'", "-"}

\* the end of the run of characters of one class that starts at i (i - 1 if none)
RunEnd(s, i, OfClass(_)) ==
  LET stops == {j \in i..Len(s) : ~OfClass(Ch(s, j))}
  IN  IF stops = {} THEN Len(s) ELSE SetMin(stops) - 1

\* re.search(r'([a-zA-Z0-9_.+-]+@[a-zA-Z0-9-]+\.[a-zA-Z0-9-]+)', snippet) and
\* email[email.index('@'):]: the text from the first "@" that follows a local
\* part and is followed by host "." host; "" without a match
DomainIn(snippet) ==
  LET HostEnd(j) == RunEnd(snippet, j + 1, HostCh)
      TldEnd(j) == RunEnd(snippet, HostEnd(j) + 2, HostCh)
      ats == {j \in 2..Len(snippet) :
                /\ Ch(snippet, j) = "@"
                /\ LocalCh(Ch(snippet, j - 1))
                /\ HostEnd(j) > j
                /\ HostEnd(j) < Len(snippet)
                /\ Ch(snippet, HostEnd(j) + 1) = "."
                /\ TldEnd(j) > HostEnd(j) + 1}
  IN  IF ats = {} THEN "" ELSE SubSeq(snippet, SetMin(ats), TldEnd(SetMin(ats)))

\* extract_email_domain(snippets); NoneVal is None
RECURSIVE extract_email_domain(_)
extract_email_domain(snippets) ==
  IF Len(snippets) = 0 THEN NoneVal
  ELSE IF DomainIn(Head(snippets)) # "" THEN DomainIn(Head(snippets))
  ELSE extract_email_domain(Tail(snippets))

\* where the domain stands in the snippet right after a local part, from position from on
DomainStarts(snippet, domain, from) ==
  {j \in (from + 1)..(Len(snippet) - Len(domain) + 1) :
     /\ SubSeq(snippet, j, j + Len(domain) - 1) = domain
     /\ LocalCh(Ch(snippet, j - 1))}

\* re.findall(email_pattern, snippet): the addresses of the domain, left to right
RECURSIVE FindEmails(_, _, _)
FindEmails(snippet, domain, from) ==
  LET starts == DomainStarts(snippet, domain, from)
      First(j) ==
        LET breaks == {i \in from..(j - 1) : ~LocalCh(Ch(snippet, i))}
        IN  IF breaks = {} THEN from ELSE SetMax(breaks) + 1
      Found(j) == <<SubSeq(snippet, First(j), j + Len(domain) - 1)>>
                    \o FindEmails(snippet, domain, j + Len(domain))
  IN  IF starts = {} THEN <<>> ELSE Found(SetMin(starts))

\* snippet[p..q] reads as two or more words [A-Z][a-zA-Z.'-]+ with one blank between
NameSpan(snippet, p, q) ==
  LET blanks == {i \in p..q : Ch(snippet, i) = " "}
  IN  /\ blanks # {}
      /\ \A i \in p..q : Ch(snippet, i) = " " \/ NameCh(Ch(snippet, i))
      /\ \A i \in {p} \cup {b + 1 : b \in blanks} :
            /\ i < q
            /\ IsUpperCh(Ch(snippet, i))
            /\ NameCh(Ch(snippet, i + 1))

\* where the address group of name_regex can start after a name that ends at q:
\* up to 100 characters without a newline, then a local part that runs up to the domain
LocalStarts(snippet, domain, q) ==
  {k \in (q + 1)..Len(snippet) :
     /\ k - q - 1 <= 100
     /\ \A i \in (q + 1)..(k - 1) : Ch(snippet, i) # "\n"
     /\ LocalCh(Ch(snippet, k))
     /\ RunEnd(snippet, k, LocalCh) < Len(snippet)
     /\ SubSeq(snippet, RunEnd(snippet, k, LocalCh) + 1,
               RunEnd(snippet, k, LocalCh) + Len(domain)) = domain}

\* re.finditer(name_regex, snippet): the (name, email) pairs, left to right.  The
\* quantifiers are greedy: the name takes the longest span and the filler
\* [^\n]{0,100} the most characters that still leave an address behind them.
RECURSIVE FindNamed(_, _, _)
FindNamed(snippet, domain, from) ==
  LET Ends(p) == {q \in (p + 1)..Len(snippet) :
                    NameSpan(snippet, p, q) /\ LocalStarts(snippet, domain, q) # {}}
      begins == {p \in from..Len(snippet) : Ends(p) # {}}
      Matched(p, q, k) ==
        <<PyTuple(<<PyStr(SubSeq(snippet, p, q)),
                    PyStr(SubSeq(snippet, k, RunEnd(snippet, k, LocalCh) + Len(domain)))>>)>>
          \o FindNamed(snippet, domain, RunEnd(snippet, k, LocalCh) + Len(domain) + 1)
      From(p) == Matched(p, SetMax(Ends(p)),
                         SetMax(LocalStarts(snippet, domain, SetMax(Ends(p)))))
  IN  IF begins = {} THEN <<>> ELSE From(SetMin(begins))

\* the keys of email_sources after the emails of results were entered in order
RECURSIVE SourceKeys(_, _)
SourceKeys(results, keys) ==
  IF Len(results) = 0 THEN keys
  ELSE SourceKeys(Tail(results),
                  IF \E i \in 1..Len(keys) : keys[i] = Head(results).items[2]
                  THEN keys ELSE Append(keys, Head(results).items[2]))

\* the results list of extract_known_emails: per snippet the named matches,
\* then (None, email) for every address
RECURSIVE KnownResults(_, _)
KnownResults(snippets, domain) ==
  IF Len(snippets) = 0 THEN <<>>
  ELSE LET Bare(emails) ==
             [i \in 1..Len(emails) |-> PyTuple(<<PyNone, PyStr(emails[i])>>)]
       IN  FindNamed(Head(snippets), domain, 1)
             \o Bare(FindEmails(Head(snippets), domain, 1))
             \o KnownResults(Tail(snippets), domain)

\* extract_known_emails(snippets, domain): the tuple (results, email_sources)
extract_known_emails(snippets, domain) ==
  LET Both(results) == PyTuple(<<PyList(results), PyDict(SourceKeys(results, <<>>))>>)
  IN  Both(KnownResults(snippets, domain))

\* email.split('@')[0].lower()
LocalPart(email) ==
  LET ats == {i \in 1..Len(email) : Ch(email, i) = "@"}
  IN  Lower(IF ats = {} THEN email ELSE SubSeq(email, 1, SetMin(ats) - 1))

\* HumanName(name).first.lower() and .last.lower() of a name written "First ... Last";
\* the library applies regular expressions to its argument, and a name of one
\* word is a first name
FirstOf(name) == IF Len(Split(name)) = 0 THEN "" ELSE Lower(Split(name)[1])
LastOf(name) == IF Len(Split(name)) < 2 THEN "" ELSE Lower(Split(name)[Len(Split(name))])

\* detect_email_format(name, email)
detect_email_format(name, email) ==
  LET Chosen(first, last, local_part) ==
        IF local_part = first \o "." \o last THEN PyStr("first.last")
        ELSE IF local_part = first \o last THEN PyStr("firstlast")
        ELSE IF local_part = Ch(first, 1) \o "." \o last THEN PyStr("f.last")
        ELSE IF local_part = first THEN PyStr("first")
        ELSE IF local_part = last THEN PyStr("last")
        ELSE PyNone
      Parsed(first, last) ==
        IF first = "" \/ last = "" THEN PyNone
        ELSE IF email.type # "str" THEN Raised("AttributeError")
        ELSE Chosen(first, last, LocalPart(email.items[1]))
  IN  IF ~Truthy(name) THEN PyNone
      ELSE IF name.type # "str" THEN Raised("TypeError")
      ELSE Parsed(FirstOf(name.items[1]), LastOf(name.items[1]))

\* construct_email(name, domain, fmt); name is a str ("" for none), fmt is a tagged value
construct_email(name, domain, fmt) ==
  LET Made(first, last, f) ==
        IF f \in {"first.last", "firstlast", "f.last", "first_initial.last",
                  "first_initiallast", "first.last_initial", "first_initiallast_initial"}
           /\ (first = "" \/ last = "")
        THEN PyNone
        ELSE IF f = "first.last" THEN PyStr(first \o "." \o last \o domain)
        ELSE IF f = "firstlast" THEN PyStr(first \o last \o domain)
        ELSE IF f \in {"f.last", "first_initial.last"}
        THEN PyStr(Ch(first, 1) \o "." \o last \o domain)
        ELSE IF f = "first_initiallast" THEN PyStr(Ch(first, 1) \o last \o domain)
        ELSE IF f = "first"
        THEN (IF first = "" THEN PyNone ELSE PyStr(first \o domain))
        ELSE IF f = "last"
        THEN (IF last = "" THEN PyNone ELSE PyStr(last \o domain))
        ELSE IF f = "first.last_initial" THEN PyStr(first \o "." \o Ch(last, 1) \o domain)
        ELSE IF f = "first_initiallast_initial"
        THEN PyStr(Ch(first, 1) \o Ch(last, 1) \o domain)
        ELSE PyNone
  IN  IF name = "" \/ name = NoneVal \/ ~Truthy(fmt) THEN PyNone
      ELSE Made(FirstOf(name), LastOf(name), fmt.items[1])

\* "for n, e in known_emails": unpacking takes exactly two items
Unpacks(x) == Len(x.items) = 2

\* [(n, e) for n, e in known_emails if n and detect_email_format(n, e)]
RECURSIVE valid_emails(_)
valid_emails(known_emails) ==
  LET Rest(x, keep, rest) ==
        IF IsRaised(rest) THEN rest
        ELSE IF keep THEN PyList(<<PyTuple(x.items)>> \o rest.items)
        ELSE rest
      Tested(x, fmt) ==
        IF IsRaised(fmt) THEN fmt
        ELSE Rest(x, Truthy(fmt), valid_emails(Tail(known_emails)))
      Taken(x) ==
        IF ~Unpacks(x) THEN Raised("ValueError")
        ELSE IF ~Truthy(x.items[1])
        THEN Rest(x, FALSE, valid_emails(Tail(known_emails)))
        ELSE Tested(x, detect_email_format(x.items[1], x.items[2]))
  IN  IF Len(known_emails) = 0 THEN PyList(<<>>) ELSE Taken(Head(known_emails))

\* determine_treasurer_name_for_email(result, email_strategy); NoneVal is None
determine_treasurer_name_for_email(res, email_strategy) ==
  IF email_strategy = "use_treasurer" /\ res.primary_treasurer \notin {NoneVal, ""}
  THEN res.primary_treasurer
  ELSE IF email_strategy = "use_cfo_only" THEN NoneVal
  ELSE IF res.primary_treasurer \notin {NoneVal, ""} THEN res.primary_treasurer
  ELSE NoneVal

\* the treasurer fields of the returned dict, the same statements on both paths
TreasurerFields(email_strategy, treasurer_name, domain, fmt) ==
  IF email_strategy = "use_treasurer" /\ treasurer_name \notin {NoneVal, ""}
  THEN [ treasurer_email |-> construct_email(treasurer_name, domain, fmt),
         treasurer_status |-> "provided" ]
  ELSE IF email_strategy = "use_cfo_only"
  THEN [ treasurer_email |-> PyNone, treasurer_status |-> "skipped_due_to_uncertainty" ]
  ELSE [ treasurer_email |-> PyNone, treasurer_status |-> "not_applicable" ]

\* {"error": message}
ErrorDict(message) == [type |-> "dict", error |-> message]

\* Step 4 of scrape_emails_with_intelligence: email_result['treasurer_detection'] = ...
WithDetection(email_result, res) ==
  IF IsRaised(email_result) THEN email_result
  ELSE email_result @@
       [ treasurer_detection |->
           [ status |-> res.status,
             confidence_level |-> res.confidence_level,
             email_strategy |-> res.email_strategy,
             recommendation |-> res.recommendation,
             candidates |-> [i \in 1..Len(res.candidates) |-> res.candidates[i].name] ] ]

\* the dict both construction paths return once the format is known
EmailDict(m, res, fmt, source) ==
  [ type |-> "dict",
    domain |-> m.domain,
    format |-> fmt,
    cfo_email |-> IF m.cfo_name # "" THEN construct_email(m.cfo_name, m.domain, fmt)
                  ELSE PyNone,
    source_email |-> source,
    strategy_used |-> m.email_strategy,
    uncertainty_reason |-> IF m.email_strategy # "use_treasurer" THEN res.recommendation
                           ELSE NoneVal ]
  @@ TreasurerFields(m.email_strategy, m.treasurer_name, m.domain, fmt)

\* construct_emails_from_known(domain, known_emails, ...)
construct_emails_from_known(m, known_emails, res) ==
  LET Built(name, email, fmt) ==
        IF IsRaised(fmt) THEN fmt
        ELSE IF ~Truthy(fmt)
        THEN ErrorDict("Could not detect email format from known emails")
        ELSE EmailDict(m, res, fmt, email) @@ [source_name |-> name]
      From(name, email) == Built(name, email, detect_email_format(name, email))
  IN  From(known_emails[1].items[1], known_emails[1].items[2])

\* extract_all_non_generic_emails(snippets, domain, actual_names): the tuple
\* (emails, email_sources).  The verdicts of is_generic_email and
\* is_fake_or_test_email on an address are left open: rejected holds the
\* addresses one of them turns down.
RECURSIVE AllAddresses(_, _)
AllAddresses(snippets, domain) ==
  IF Len(snippets) = 0 THEN <<>>
  ELSE FindEmails(Head(snippets), domain, 1) \o AllAddresses(Tail(snippets), domain)

extract_all_non_generic_emails(snippets, domain, rejected) ==
  LET Passed(email) == email \notin rejected
      Wrapped(emails) == [i \in 1..Len(emails) |-> PyTuple(<<PyNone, PyStr(emails[i])>>)]
      Strs(emails) == [i \in 1..Len(emails) |-> PyStr(emails[i])]
      Both(emails) == PyTuple(<<PyList(Strs(emails)),
                              PyDict(SourceKeys(Wrapped(emails), <<>>))>>)
  IN  Both(SelectSeq(AllAddresses(snippets, domain), Passed))

\* all(is_generic_email(email) for email in all_emails); is_generic_email calls
\* email.split, which only a str has
RECURSIVE all_generic(_, _)
all_generic(emails, generic) ==
  IF Len(emails) = 0 THEN PyStr("True")
  ELSE IF Head(emails).type # "str" THEN Raised("AttributeError")
  ELSE IF Head(emails).items[1] \notin generic THEN PyStr("")
  ELSE all_generic(Tail(emails), generic)

\* fallback_email_construction after its search; inferred is the format that
\* infer_format_from_email, gpt_infer_format and the loop over the common
\* formats settle on (None if none does)
fallback_email_construction(m, res, all_emails, generic, inferred) ==
  LET Decided(only_generic) ==
        IF IsRaised(only_generic) THEN only_generic
        ELSE IF Truthy(only_generic)
        THEN ErrorDict("Only generic emails found (no real person emails available)")
        ELSE IF ~Truthy(inferred) THEN ErrorDict("Could not infer email format")
        ELSE EmailDict(m, res, inferred, all_emails.items[1])
  IN  IF ~Truthy(all_emails) THEN ErrorDict("No emails found for format inference")
      ELSE Decided(all_generic(all_emails.items, generic))

\* the conditions of the three searches of search_for_known_emails
SearchesCFO(m) == m.cfo_name # ""
SearchesCEO_whatever_found(m) == m.ceo_name # ""
SearchesCEO(m) == Len(m.known_emails) = 0 /\ m.ceo_name # ""
SearchesTreasurer(m) ==
  /\ Len(m.known_emails) = 0
  /\ m.treasurer_name \notin {NoneVal, ""}
  /\ m.email_strategy = "use_treasurer"

\* scrape_emails_with_intelligence returns email_result or lets the exception through
Ended(m, email_result) ==
  [ pc |-> IF IsRaised(email_result) THEN "raised" ELSE "returned",
    mail |-> [m EXCEPT !.out = email_result] ]

\* the end of search_for_known_emails and the branch of scrape_with_strategy:
\* the run raises, returns what construct_emails_from_known builds, or goes on
\* to the fallback; fake holds the addresses is_fake_or_test_email turns down
Settle(m, res, fake) ==
  LET NotFake(pair) == pair.items[2].items[1] \notin fake
      Branch(filtered_emails) ==
        IF Len(filtered_emails) > 0
        THEN Ended(m, WithDetection(
                        construct_emails_from_known(m, filtered_emails, res), res))
        ELSE [ pc |-> "fallback", mail |-> m ]
      Filtered(valid) ==
        IF IsRaised(valid) THEN Ended(m, valid)
        ELSE Branch(SelectSeq(valid.items, NotFake))
  IN  Filtered(valid_emails(m.known_emails))

\* search_for_known_emails from one of its three conditions on, up to the next search
RECURSIVE Proceed(_, _, _, _)
Proceed(m, res, stage, fake) ==
  IF stage = "cfo"
  THEN (IF SearchesCFO(m) THEN [pc |-> "cfo", mail |-> m]
        ELSE Proceed(m, res, "ceo", fake))
  ELSE IF stage = "ceo"
  THEN (IF SearchesCEO(m) THEN [pc |-> "ceo", mail |-> m]
        ELSE Proceed(m, res, "treasurer", fake))
  ELSE IF stage = "treasurer"
  THEN (IF SearchesTreasurer(m) THEN [pc |-> "treasurer", mail |-> m]
        ELSE Settle(m, res, fake))
  ELSE Settle(m, res, fake)

\* what a search can answer: the snippets of its organic results
SearchAnswers ==
  { <<>>,
    <<"Press office of Acme">>,
    <<"mail jdoe@acme.com">>,
    <<"Jane Doe jdoe@acme.com">>,
    <<"mail jdoe@acme.com", "sroe@acme.com">> }
\* the addresses of these answers
AnswerAddresses == {"jdoe@acme.com", "sroe@acme.com"}
\* the formats the fallback can settle on
InferredFormats == {PyNone, PyStr("first.last"), PyStr("first_initiallast")}

\* scores below the usable floor, between the thresholds and above the high one
MailGrid == { [c |-> 30, e |-> -320], [c |-> 58, e |-> -1152], [c |-> 85, e |-> -640] }

\* the candidate lists treasurer detection hands over
MailCandidates ==
  UNION { { RankedList(n, conf, iss) :
              conf \in {cf \in [1..n -> MailGrid] :
                          \A i \in 1..(n - 1) : FGe(cf[i], cf[i + 1])},
              iss \in [1..n -> IssueChoices] } : n \in 0..MaxMailCands }

\* a query the scraper sent and, for a known-email search, the pairs it found
Query(kind, found) == [kind |-> kind, found |-> found]

InitEmail ==
  /\ pc = "scrape"
  /\ candidates \in MailCandidates
  /\ \E cfo_name \in {"", "Jane Doe"}, ceo_name \in {"", "Sam Roe"} :
        mail = [ cfo_name |-> cfo_name, ceo_name |-> ceo_name,
                 treasurer_name |-> NoneVal, email_strategy |-> NoneVal,
                 domain |-> NoneVal, queries |-> <<>>, known_emails |-> <<>>,
                 out |-> PyNone ]
  /\ extracted = NoneVal
  /\ filing = NoneVal
  /\ sources = <<>>
  /\ failed = {}
  /\ raw = <<>>
  /\ result = NoResult
  /\ scored = NoneVal
  /\ SPACY_AVAILABLE = FALSE
  /\ NLTK_AVAILABLE = FALSE
  /\ table = <<>>

\* Steps 1 and 2 of scrape_emails_with_intelligence: get_intelligent_treasurer_info
\* (its detection run ends in build_detection_result) and the treasurer name
StartScrape ==
  /\ pc = "scrape"
  /\ result' = build_detection_result(candidates, CompanyName)
  /\ mail' = [mail EXCEPT
                !.email_strategy = email_guidance(result').strategy,
                !.treasurer_name = determine_treasurer_name_for_email(
                                     result', email_guidance(result').strategy)]
  /\ pc' = "domain"
  /\ UNCHANGED <<sources, failed, raw, candidates, scored, SPACY_AVAILABLE,
                 NLTK_AVAILABLE, table, extracted, filing>>

\* the rest of the run once the domain is known, up to the next search
Searching(m, fake) ==
  LET Go(next) == pc' = next.pc /\ mail' = next.mail
  IN  Go(Proceed(m, result, "cfo", fake))

\* find_email_domain: the search "<company> email format"
FindDomain(snippets) ==
  /\ pc = "domain"
  /\ LET Found(m, domain) ==
           IF domain = NoneVal THEN pc' = "domain_ir" /\ mail' = m
           ELSE \E fake \in SUBSET AnswerAddresses :
                   Searching([m EXCEPT !.domain = domain], fake)
     IN  Found([mail EXCEPT !.queries = Append(@, Query("domain", <<>>))],
               extract_email_domain(snippets))
  /\ UNCHANGED <<sources, failed, raw, candidates, result, scored, SPACY_AVAILABLE,
                 NLTK_AVAILABLE, table, extracted, filing>>

\* find_email_domain: the search "<company> investor relations pr email", and
\* the return of scrape_with_strategy without a domain
FindDomainFallback(snippets) ==
  /\ pc = "domain_ir"
  /\ LET Go(next) == pc' = next.pc /\ mail' = next.mail
         Found(m, domain) ==
           IF domain = NoneVal
           THEN Go(Ended(m, WithDetection(ErrorDict("Could not find domain"), result)))
           ELSE \E fake \in SUBSET AnswerAddresses :
                   Searching([m EXCEPT !.domain = domain], fake)
     IN  Found([mail EXCEPT !.queries = Append(@, Query("domain_ir", <<>>))],
               extract_email_domain(snippets))
  /\ UNCHANGED <<sources, failed, raw, candidates, result, scored, SPACY_AVAILABLE,
                 NLTK_AVAILABLE, table, extracted, filing>>

\* one search of search_for_known_emails and known_emails.extend(...) of what
\* extract_known_emails returns, then the code up to the next search
SearchKnown(kind, after, snippets) ==
  /\ pc = kind
  /\ LET Go(next) == pc' = next.pc /\ mail' = next.mail
         Extended(known) ==
           [mail EXCEPT !.queries = Append(@, Query(kind, known.items[1].items)),
                        !.known_emails = @ \o known.items]
     IN  \E fake \in SUBSET AnswerAddresses :
            Go(Proceed(Extended(extract_known_emails(snippets, mail.domain)),
                       result, after, fake))
  /\ UNCHANGED <<sources, failed, raw, candidates, result, scored, SPACY_AVAILABLE,
                 NLTK_AVAILABLE, table, extracted, filing>>

SearchCFO(snippets) == SearchKnown("cfo", "ceo", snippets)
SearchCEO(snippets) == SearchKnown("ceo", "treasurer", snippets)
SearchTreasurer(snippets) == SearchKnown("treasurer", "settle", snippets)

\* fallback_email_construction: the search "<company> <domain> email" and the rest
FallbackConstruction(snippets) ==
  /\ pc = "fallback"
  /\ LET Go(next) == pc' = next.pc /\ mail' = next.mail
         m == [mail EXCEPT !.queries = Append(@, Query("all", <<>>))]
     IN  \E rejected \in SUBSET AnswerAddresses, generic \in SUBSET AnswerAddresses,
            inferred \in InferredFormats :
            Go(Ended(m, WithDetection(
                 fallback_email_construction(
                   m, result,
                   extract_all_non_generic_emails(snippets, mail.domain, rejected),
                   generic, inferred), result)))
  /\ UNCHANGED <<sources, failed, raw, candidates, result, scored, SPACY_AVAILABLE,
                 NLTK_AVAILABLE, table, extracted, filing>>

NextEmail ==
  \/ StartScrape
  \/ \E snippets \in SearchAnswers : FindDomain(snippets)
  \/ \E snippets \in SearchAnswers : FindDomainFallback(snippets)
  \/ \E snippets \in SearchAnswers : SearchCFO(snippets)
  \/ \E snippets \in SearchAnswers : SearchCEO(snippets)
  \/ \E snippets \in SearchAnswers : SearchTreasurer(snippets)
  \/ \E snippets \in SearchAnswers : FallbackConstruction(snippets)

SpecEmail == InitEmail /\ [][NextEmail]_vars
(***************************************************************************)
(* The two-pass facility extractor of                                      *)
(* backend/unusedprevtestversions/get_10q.py.  The document text is what   *)
(* the language model reads and nothing else, so a call is known by its    *)
(* pass and by the content it was given; an answer of the model is an      *)
(* exception, a text without JSON, a text whose JSON does not parse, or    *)
(* the parsed object, a record with the keys it holds.  A JSON null is     *)
(* NoneVal.  An entry holds the fields the clean-up reads; currency,       *)
(* interest_rate and maturity are copied like name.                        *)
(***************************************************************************)
note_keywords == <<"notes", "bonds", "debentures">>
credit_agreement_keywords == <<"credit agreement", "loan agreement", "facility agreement">>

\* any(keyword in name.lower() for keyword in keywords)
AnyKeyword(name, keywords) ==
  LET In(low) == \E i \in 1..Len(keywords) : Contains(low, keywords[i])
  IN  In(Lower(name))

\* x in items
IsIn(items, x) == \E i \in 1..Len(items) : items[i] = x

\* list(dict.fromkeys(items))
RECURSIVE Unique(_)
Unique(items) ==
  IF Len(items) = 0 THEN <<>>
  ELSE LET Add(before, x) == IF IsIn(before, x) THEN before ELSE Append(before, x)
       IN  Add(Unique(SubSeq(items, 1, Len(items) - 1)), items[Len(items)])

\* {"facilities": [], "notes": [], "error": message}
ErrorResult(message) == [facilities |-> <<>>, notes |-> <<>>, error |-> message]
\* result.get("error") is set and not empty
HasError(res) == "error" \in DOMAIN res /\ res.error # ""

\* identify_debt_facilities_first_pass: the names of the facilities and notes
identify_debt_facilities_first_pass(answer) ==
  LET IsNote(name) == /\ AnyKeyword(name, note_keywords)
                      /\ ~AnyKeyword(name, credit_agreement_keywords)
      Stays(name) == ~IsNote(name)
      Moved(facilities, notes, facilities_to_move) ==
        LET New(name) == ~IsIn(notes, name)
        IN  [ facilities |-> SelectSeq(facilities, Stays),
              notes |-> notes \o SelectSeq(facilities_to_move, New) ]
      Sorted(facilities, notes) == Moved(facilities, notes, SelectSeq(facilities, IsNote))
      Filled(json, key) == IF key \in DOMAIN json THEN json[key] ELSE <<>>
  IN  IF answer.kind = "raise" THEN ErrorResult(answer.message)
      ELSE IF answer.kind = "text"
      THEN ErrorResult("No JSON found in first pass response")
      ELSE IF answer.kind = "bad_json" THEN ErrorResult(answer.message)
      ELSE Sorted(Unique(Filled(answer.json, "facilities")),
                  Unique(Filled(answer.json, "notes")))

\* the post-processing of extract_facility_details_second_pass on a result
\* that holds both arrays
SeparateArrays(facilities, notes) ==
  LET IsCredit(item) == AnyKeyword(item.name, credit_agreement_keywords)
      IsNote(item) == AnyKeyword(item.name, note_keywords)
      Misfiled(facility) == IsNote(facility) /\ ~IsCredit(facility)
      \* facilities_to_move and notes_to_move receive the same items in the same order
      Sorted(kept_notes, to_move) ==
        LET Stays(item) == ~IsIn(to_move, item)
        IN  [ facilities |-> SelectSeq(facilities, Stays) \o SelectSeq(to_move, IsCredit),
              notes |-> SelectSeq(kept_notes, Stays) \o SelectSeq(to_move, IsNote) ]
      Moving(kept_notes) ==
        Sorted(kept_notes, SelectSeq(facilities, Misfiled) \o SelectSeq(kept_notes, IsCredit))
      Named(facility_names_set) ==
        LET Other(note) == note.name \notin facility_names_set
        IN  Moving(SelectSeq(notes, Other))
  IN  Named({facilities[i].name : i \in 1..Len(facilities)})

\* extract_facility_details_second_pass(text_content, facility_names, note_names, ...)
\* once the model has answered
extract_facility_details_second_pass(answer) ==
  IF answer.kind = "raise" THEN ErrorResult(answer.message)
  ELSE IF answer.kind = "text" THEN ErrorResult("No JSON found in second pass response")
  ELSE IF answer.kind = "bad_json" THEN ErrorResult(answer.message)
  ELSE IF "facilities" \in DOMAIN answer.json /\ "notes" \in DOMAIN answer.json
  THEN SeparateArrays(answer.json.facilities, answer.json.notes)
  ELSE answer.json

\* one entry of clean_facility_results; lower() of a null source_text raises
CleanEntry(entry, is_facility) ==
  LET Generic(lead_bank) ==
        \E g \in {"group of", "various", "multiple"} : Contains(Lower(lead_bank), g)
  IN  IF entry.max_amount = "MISSING" /\ entry.source_text = NoneVal
      THEN Raised("AttributeError")
      ELSE IF is_facility /\ entry.lead_bank = NoneVal THEN PyTuple(<<entry>>)
      ELSE IF is_facility /\ entry.lead_bank # "" /\ Generic(entry.lead_bank)
      THEN PyTuple(<<[entry EXCEPT !.lead_bank = "MISSING"]>>)
      ELSE PyTuple(<<entry>>)

\* the entries of one array cleaned in order, or the exception of the first that raises
RECURSIVE CleanAll(_, _)
CleanAll(entries, is_facility) ==
  LET After(first, rest) ==
        IF IsRaised(first) THEN first
        ELSE IF IsRaised(rest) THEN rest
        ELSE PyTuple(first.items \o rest.items)
  IN  IF Len(entries) = 0 THEN PyTuple(<<>>)
      ELSE After(CleanEntry(Head(entries), is_facility), CleanAll(Tail(entries), is_facility))

\* clean_facility_results(result): the cleaned result, or an exception
clean_facility_results(res) ==
  LET Both(facilities, notes) ==
        IF IsRaised(facilities) THEN facilities
        ELSE IF IsRaised(notes) THEN notes
        ELSE [facilities |-> facilities.items, notes |-> notes.items]
  IN  IF "facilities" \notin DOMAIN res \/ "notes" \notin DOMAIN res THEN res
      ELSE Both(CleanAll(res.facilities, TRUE), CleanAll(res.notes, FALSE))

\* an exception left clean_facility_results
Failed(cleaned) == "type" \in DOMAIN cleaned /\ cleaned.type = "raised"

\* one call of the language model: the pass, the content it was given and
\* whether it answered with JSON
Call(pass, content, answer) == [pass |-> pass, content |-> content, ok |-> answer.kind = "json"]

\* the entries a second-pass answer can hold
EntryChoices ==
  { [name |-> "Credit Agreement", max_amount |-> "$500 million",
     lead_bank |-> "JPMorgan", source_text |-> "entered into a credit agreement"],
    [name |-> "Senior Notes", max_amount |-> "$300 million",
     lead_bank |-> "MISSING", source_text |-> "issued senior notes"],
    [name |-> "Senior Notes", max_amount |-> "MISSING",
     lead_bank |-> "MISSING", source_text |-> NoneVal],
    [name |-> "Notes Credit Agreement", max_amount |-> "$200 million",
     lead_bank |-> NoneVal, source_text |-> "notes credit agreement"],
    [name |-> "Term Loan", max_amount |-> "$100 million",
     lead_bank |-> "various banks", source_text |-> "term loan"] }

Json(value) == [kind |-> "json", json |-> value]
\* what the model can answer, or fail with, in either pass
FailedAnswers ==
  { [kind |-> "raise", message |-> "maximum context length exceeded"],
    [kind |-> "raise", message |-> ""],
    [kind |-> "text"],
    [kind |-> "bad_json", message |-> "Expecting value: line 1 column 2 (char 1)"] }
FirstAnswers ==
  FailedAnswers \cup
  { Json([facilities |-> <<"Credit Agreement">>, notes |-> <<"Senior Notes">>]),
    Json([facilities |-> <<"Senior Notes", "Credit Agreement", "Senior Notes">>]),
    Json([facilities |-> <<>>, notes |-> <<>>]) }
SecondAnswers ==
  FailedAnswers \cup
  { Json([facilities |-> <<e>>, notes |-> <<f>>]) : e, f \in EntryChoices }
  \cup { Json([facilities |-> <<e>>]) : e \in EntryChoices }

InitRobust ==
  /\ pc = "first_pass"
  /\ \E output_file \in {NoneVal, "facilities.json"} :
        filing = [ attempt |-> "full content", output_file |-> output_file,
                   calls |-> <<>>, facility_names |-> <<>>, note_names |-> <<>>,
                   out |-> [pending |-> TRUE] ]
  /\ extracted = NoneVal
  /\ mail = NoneVal
  /\ sources = <<>>
  /\ failed = {}
  /\ raw = <<>>
  /\ candidates = <<>>
  /\ result = NoResult
  /\ scored = NoneVal
  /\ SPACY_AVAILABLE = FALSE
  /\ NLTK_AVAILABLE = FALSE
  /\ table = <<>>

\* extract_facilities_robust returns out
Returns(f, out) == pc' = "returned" /\ filing' = [f EXCEPT !.out = out]

\* clean_facility_results, the write of output_file and what follows: the
\* return, the fallback to the filtered content when the attempt on the full
\* content raised, or the error result when the attempt on the filtered content did
Finish(f, cleaned, written) ==
  LET Caught(message) ==
        IF f.attempt = "full content"
        THEN pc' = "first_pass" /\ filing' = [f EXCEPT !.attempt = "filtered content"]
        ELSE Returns(f, ErrorResult(message))
  IN  IF Failed(cleaned) THEN Caught("'NoneType' object has no attribute 'lower'")
      ELSE IF f.output_file # NoneVal /\ ~written
      THEN Caught("[Errno 13] Permission denied: 'facilities.json'")
      ELSE Returns(f, cleaned)

\* the first pass of an attempt and the code up to the second call of the model
FirstPass(answer, written) ==
  /\ pc = "first_pass"
  /\ LET Named(f, first_pass_result) ==
           IF HasError(first_pass_result) THEN Returns(f, first_pass_result)
           ELSE IF Len(first_pass_result.facilities) = 0 /\ Len(first_pass_result.notes) = 0
           THEN (IF f.attempt = "full content"
                 THEN Returns(f, [facilities |-> <<>>, notes |-> <<>>])
                 ELSE Finish(f, clean_facility_results([facilities |-> <<>>, notes |-> <<>>]),
                             written))
           ELSE /\ pc' = "second_pass"
                /\ filing' = [f EXCEPT !.facility_names = first_pass_result.facilities,
                                       !.note_names = first_pass_result.notes]
     IN  Named([filing EXCEPT !.calls = Append(@, Call("first", filing.attempt, answer))],
               identify_debt_facilities_first_pass(answer))
  /\ UNCHANGED <<sources, failed, raw, candidates, result, scored, SPACY_AVAILABLE,
                 NLTK_AVAILABLE, table, extracted, mail>>

\* the second pass of an attempt and the rest of the attempt
SecondPass(answer, written) ==
  /\ pc = "second_pass"
  /\ Finish([filing EXCEPT !.calls = Append(@, Call("second", filing.attempt, answer))],
            clean_facility_results(extract_facility_details_second_pass(answer)),
            written)
  /\ UNCHANGED <<sources, failed, raw, candidates, result, scored, SPACY_AVAILABLE,
                 NLTK_AVAILABLE, table, extracted, mail>>

NextRobust ==
  \/ \E answer \in FirstAnswers, written \in BOOLEAN : FirstPass(answer, written)
  \/ \E answer \in SecondAnswers, written \in BOOLEAN : SecondPass(answer, written)

SpecRobust == InitRobust /\ [][NextRobust]_vars

(***************************************************************************)
(* The second pass on its own: the post-processing applied to the answers  *)
(* that hold both arrays.                                                  *)
(***************************************************************************)
\* entries of one array of an answer
MaxEntries == 2

EntryLists == UNION { [1..n -> EntryChoices] : n \in 0..MaxEntries }

InitSeparate ==
  /\ pc = "answered"
  /\ \E facilities \in EntryLists, notes \in EntryLists :
        filing = [ answer |-> Json([facilities |-> facilities, notes |-> notes]),
                   out |-> [pending |-> TRUE] ]
  /\ extracted = NoneVal
  /\ mail = NoneVal
  /\ sources = <<>>
  /\ failed = {}
  /\ raw = <<>>
  /\ candidates = <<>>
  /\ result = NoResult
  /\ scored = NoneVal
  /\ SPACY_AVAILABLE = FALSE
  /\ NLTK_AVAILABLE = FALSE
  /\ table = <<>>

\* extract_facility_details_second_pass from the answer of the model on
SeparateAnswer ==
  /\ pc = "answered"
  /\ filing' = [filing EXCEPT !.out = extract_facility_details_second_pass(filing.answer)]
  /\ pc' = "separated"
  /\ UNCHANGED <<sources, failed, raw, candidates, result, scored, SPACY_AVAILABLE,
                 NLTK_AVAILABLE, table, extracted, mail>>

NextSeparate == SeparateAnswer

SpecSeparate == InitSeparate /\ [][NextSeparate]_vars
(***************************************************************************)
(* Properties.  Scores are compared with the decimal thresholds exactly:   *)
(* the double [c, e] is at least k/100 iff c > k, or c = k and e >= 0.      *)
(***************************************************************************)
AtLeast(x, k) == x.c > k \/ (x.c = k /\ x.e >= 0)
LeadsBy(x, y, k) == x.c - y.c > k \/ (x.c - y.c = k /\ x.e - y.e >= 0)
HasIssue(cand, tag) == tag \in SeqSet(cand.potential_issues)
OnlyBlob(i) == Len(sources) = Len(Channels) /\ \A j \in 1..Len(sources) : j # i => sources[j] = ""
AllEmpty == Len(sources) = Len(Channels) /\ \A j \in 1..Len(sources) : sources[j] = ""
Returned == pc = "done"
NoDualRole == \A i \in 1..Len(candidates) : ~HasIssue(candidates[i], "dual_role_mention")
\* rule 3 of the decision engine, as the specification words it
HighRule ==
  /\ AtLeast(candidates[1].confidence, 75)
  /\ Len(candidates) = 1 \/ ~AtLeast(candidates[2].confidence, 55)
\* the candidates the specification calls usable
Usable == SelectSeq(candidates, LAMBDA cand : AtLeast(cand.confidence, 45))
IsSingleConfident(level) ==
  /\ result.status = "single_confident"
  /\ result.confidence_level = level
  /\ result.primary_treasurer = candidates[1].name
  /\ result.email_strategy = "use_treasurer"

\* C1: when the leadership page is the only blob and reads "<Name>, Vice
\* President and Treasurer", detect returns single_confident with primary
\* <Name> and confidence_level high.
C1_VpAndTreasurerIsHigh ==
  \A name \in {"Jane Doe", "Mark Lee"} :
     (Returned /\ OnlyBlob(1)
        /\ sources[1] = name \o ", Vice President and Treasurer")
     => /\ result.status = "single_confident"
        /\ result.primary_treasurer = name
        /\ result.confidence_level = "high"

\* C2: when some blob reads "<Name> is the CFO and Treasurer", detect returns
\* cfo_treasurer_combo with email_strategy use_cfo_only.
C2_DefinitivePhraseGivesCombo ==
  (Returned /\ \E i \in 1..Len(sources) : Contains(sources[i], " is the CFO and Treasurer"))
  => /\ result.status = "cfo_treasurer_combo"
     /\ result.email_strategy = "use_cfo_only"

\* C3: when every channel yields an empty blob, whether it answered nothing or
\* failed, detect does not raise and returns none_found with no primary, no
\* candidates and email_strategy use_cfo_only.
C3_AllEmptyGivesNoneFound ==
  AllEmpty =>
    /\ pc # "raised"
    /\ pc \in {"extract", "decide"} => candidates = <<>>
    /\ Returned => /\ result.status = "none_found"
                   /\ result.primary_treasurer = NoneVal
                   /\ result.candidates = <<>>
                   /\ result.email_strategy = "use_cfo_only"
C3_Witness == Returned /\ AllEmpty /\ Cardinality(failed) = Len(Channels)

\* C4: a non-empty candidate list in which any candidate, of any rank and
\* score, carries the dual-role tag gives cfo_treasurer_combo with primary
\* "same" and email_strategy use_cfo_only.
C4_DualRoleTagWins ==
  (Returned /\ Len(candidates) > 0 /\ ~NoDualRole)
  => /\ result.status = "cfo_treasurer_combo"
     /\ result.primary_treasurer = "same"
     /\ result.email_strategy = "use_cfo_only"
C4_Witness ==
  /\ Returned /\ Len(candidates) >= 2
  /\ AtLeast(candidates[1].confidence, 75)
  /\ ~HasIssue(candidates[1], "dual_role_mention")
  /\ HasIssue(candidates[Len(candidates)], "dual_role_mention")
  /\ result.status = "cfo_treasurer_combo"

\* C5: with no dual-role tag, a top score of at least 0.75 and no runner-up
\* at 0.55 or more, the result is single_confident, high, with the top
\* candidate as primary and email_strategy use_treasurer.
C5_HighSingle ==
  (Returned /\ Len(candidates) > 0 /\ NoDualRole /\ HighRule)
  => IsSingleConfident("high")
C5_Witness ==
  /\ Returned /\ Len(candidates) >= 2 /\ NoDualRole /\ HighRule
  /\ AtLeast(candidates[2].confidence, 45)
  /\ result.confidence_level = "high"

\* C6 as claimed: when rules 1-3 do not apply and exactly one candidate has a
\* score of at least 0.55, the result is single_confident, medium, with that
\* candidate as primary and email_strategy use_treasurer.
ExactlyOneMedium ==
  /\ Len(candidates) > 0 /\ NoDualRole /\ ~HighRule
  /\ AtLeast(candidates[1].confidence, 55)
  /\ \A i \in 2..Len(candidates) : ~AtLeast(candidates[i].confidence, 55)
C6_ExactlyOneMediumAsClaimed ==
  (Returned /\ ExactlyOneMedium) => IsSingleConfident("medium")
\* C6 amended: when rules 1-3 do not apply and exactly one candidate has a
\* score of at least 0.55, and it is the only candidate or leads the runner-up
\* by at least 0.10, the result is single_confident, medium, with that
\* candidate as primary and email_strategy use_treasurer.
C6_ExactlyOneMedium ==
  (Returned /\ ExactlyOneMedium
     /\ (Len(candidates) = 1
           \/ LeadsBy(candidates[1].confidence, candidates[2].confidence, 10)))
  => IsSingleConfident("medium")
C6_Witness ==
  /\ Returned /\ ExactlyOneMedium /\ Len(candidates) = 1
  /\ result.recommendation = "Medium confidence: " \o candidates[1].name
                               \o " is likely the treasurer"

\* C7: when rules 1-4 do not apply, the top score is at least 0.55 and it
\* leads the runner-up by at least 0.10, the result is single_confident,
\* medium, with the top candidate as primary and email_strategy use_treasurer.
C7_SignificantGap ==
  (Returned /\ Len(candidates) > 1 /\ NoDualRole /\ ~HighRule
     /\ AtLeast(candidates[1].confidence, 55)
     /\ LeadsBy(candidates[1].confidence, candidates[2].confidence, 10))
  => IsSingleConfident("medium")
C7_Witness ==
  /\ Returned /\ Len(candidates) > 1 /\ NoDualRole /\ ~HighRule
  /\ AtLeast(candidates[2].confidence, 55)
  /\ LeadsBy(candidates[1].confidence, candidates[2].confidence, 10)
  /\ ~LeadsBy(candidates[1].confidence, candidates[2].confidence, 15)
  /\ result.status = "single_confident"

Rule7OutOfReach ==
  Returned => ~(result.status = "uncertain" /\ result.primary_treasurer # NoneVal)

\* C10: for Acme Corp with the page text "Jane A. Doe ~ Vice President and
\* Treasurer, appointed 2022." as the only blob, detect returns
\* single_confident with primary "Jane Doe" and email_strategy use_treasurer.
C10_MiddleInitialScenario ==
  (Returned /\ OnlyBlob(1)
     /\ sources[1] = "Jane A. Doe ~ Vice President and Treasurer, appointed 2022.")
  => /\ result.status = "single_confident"
     /\ result.primary_treasurer = "Jane Doe"
     /\ result.email_strategy = "use_treasurer"

\* the named person is an entry of the result's candidates that scores at
\* least 0.55
ConfidentMember(name) ==
  \E i \in 1..Len(result.candidates) :
     /\ result.candidates[i].name = name
     /\ AtLeast(result.candidates[i].confidence, 55)

\* C11 as claimed: in every returned result, primary is null or names a
\* member of candidates whose confidence is at least 0.55.
C11_PrimaryIsConfidentMemberAsClaimed ==
  Returned => \/ result.primary_treasurer = NoneVal
              \/ ConfidentMember(result.primary_treasurer)
\* C11 amended: in every returned result, primary is null, or the sentinel
\* "same" of a cfo_treasurer_combo result, or names a member of candidates
\* whose confidence is at least 0.55.
C11_PrimaryIsConfidentMember ==
  Returned => \/ result.primary_treasurer = NoneVal
              \/ result.status = "cfo_treasurer_combo" /\ result.primary_treasurer = "same"
              \/ ConfidentMember(result.primary_treasurer)
C11_Witness ==
  /\ Returned
  /\ result.primary_treasurer \notin {NoneVal, "same"}
  /\ ConfidentMember(result.primary_treasurer)
  /\ Len(result.candidates) > 1

\* aggregation has run
Aggregated == pc = "decide"
\* the raw candidates in the order aggregation meets them
RawStream == Flatten(raw)
\* where the table holds the name
Place(name) ==
  CHOOSE q \in (1..Len(table.matched)) \X (1..4) :
     q[2] <= Len(table.matched[q[1]]) /\ table.matched[q[1]][q[2]] = name
\* the normalized name: case-folded and trimmed
Norm(name) == LET At(q) == table.key[q[1]][q[2]] IN At(Place(name))
SameScore(x, y) == x.c = y.c /\ x.e = y.e
NotBelow(x, y) == x.c > y.c \/ (x.c = y.c /\ x.e >= y.e)
\* where the stream first shows the name
FirstSeen(name) ==
  SetMin({k \in 1..Len(RawStream) : Norm(RawStream[k].name) = Norm(name)})

\* C12: after aggregation each entry's confidence is at least that of the
\* next entry, and entries of equal confidence stand in the order in which
\* their names were first met across the sources.
C12_StableDescendingSort ==
  Aggregated =>
    \A i \in 1..Len(candidates) : \A j \in 1..Len(candidates) :
       i < j => /\ NotBelow(candidates[i].confidence, candidates[j].confidence)
                /\ SameScore(candidates[i].confidence, candidates[j].confidence)
                     => FirstSeen(candidates[i].name) < FirstSeen(candidates[j].name)
C12_Witness ==
  /\ Aggregated /\ Len(candidates) = 2
  /\ SameScore(candidates[1].confidence, candidates[2].confidence)
  /\ candidates[1].name = "Priya Shah" /\ candidates[2].name = "Mark Lee"
  /\ FirstSeen("Priya Shah") < FirstSeen("Mark Lee")

\* the raw candidates that the low-quality screen of aggregation lets pass
IsLow(name) == LET At(q) == table.low[q[1]][q[2]] IN At(Place(name))
KeptRaw == SelectSeq(RawStream, LAMBDA c : ~IsLow(c.name))
\* the normalized names of a list of candidates, in order
Norms(cands) == Tabulate(LAMBDA i : Norm(cands[i].name), 1, Len(cands))
Among(keys, key) == {i \in 1..Len(keys) : keys[i] = key}

\* C13: after aggregation no two entries share a normalized name, every
\* entry stands for some raw candidate, and the raw candidates that pass the
\* screen fall into one and the same entry exactly when their normalized
\* names are equal.
C13_OneEntryPerName ==
  Aggregated =>
    LET Holds(entry, kept) ==
          /\ \A i \in 1..Len(entry) :
                Among(entry, entry[i]) = {i} /\ Among(kept, entry[i]) # {}
          /\ \A k \in 1..Len(kept) : Cardinality(Among(entry, kept[k])) = 1
          /\ \A k \in 1..Len(kept) : \A l \in 1..Len(kept) :
                (Among(entry, kept[k]) = Among(entry, kept[l])) <=> (kept[k] = kept[l])
    IN  Holds(Norms(candidates), Norms(KeptRaw))
C13_Witness ==
  /\ Aggregated /\ Len(RawStream) = 3 /\ Len(candidates) = 2
  /\ Norm(RawStream[1].name) = Norm(RawStream[3].name)
  /\ Norm(RawStream[1].name) # Norm(RawStream[2].name)

\* the accumulator of the aggregation loop before the first raw candidate
\* and after each one, the candidates taken in the order the loop meets them
RECURSIVE MergeTrace(_, _)
MergeTrace(acc, stream) ==
  IF Len(stream) = 0 THEN <<acc>>
  ELSE LET Listed(next) ==
             [seen_names |-> next.seen_names,
              candidates |-> Tabulate(LAMBDA i : next.candidates[i], 1, Len(next.candidates))]
           Then(next) == <<acc>> \o MergeTrace(next, Tail(stream))
       IN  Then(Listed(MergeCandidates(acc, <<Head(stream)>>, Head(stream).source)))

\* C14: through the merges the confidence of a kept candidate never goes
\* down, and in the aggregated list it is the highest confidence among the
\* raw candidates that carry its normalized name.
C14_ConfidenceIsMax ==
  Aggregated =>
    LET Holds(trace, entry, kept, keys) ==
          /\ candidates = SortByConfidence(trace[Len(trace)].candidates)
          /\ \A k \in 1..(Len(trace) - 1) : \A i \in 1..Len(trace[k].candidates) :
                NotBelow(trace[k + 1].candidates[i].confidence,
                         trace[k].candidates[i].confidence)
          /\ \A i \in 1..Len(entry) :
                /\ \E k \in Among(keys, entry[i]) :
                      SameScore(candidates[i].confidence, kept[k].confidence)
                /\ \A k \in Among(keys, entry[i]) :
                      NotBelow(candidates[i].confidence, kept[k].confidence)
        Kept(kept) ==
          Holds(MergeTrace([seen_names |-> {}, candidates |-> <<>>], RawStream),
                Norms(candidates), kept, Norms(kept))
    IN  Kept(KeptRaw)
\* one name met on two channels, the later mention scoring lower
C14_Witness ==
  /\ Aggregated /\ Len(RawStream) >= 2
  /\ \E k \in 1..Len(RawStream) : \E l \in (k + 1)..Len(RawStream) :
        /\ RawStream[k].name = RawStream[l].name
        /\ ~NotBelow(RawStream[l].confidence, RawStream[k].confidence)
        /\ \E i \in 1..Len(candidates) :
              /\ candidates[i].name = RawStream[k].name
              /\ SameScore(candidates[i].confidence, RawStream[k].confidence)

IssuesOf(cands, keys, key) ==
  UNION {SeqSet(cands[k].potential_issues) : k \in Among(keys, key)}

\* C15: after aggregation the issue tags of an entry are the union of the
\* tags of the raw candidates merged into it.
C15_IssuesAreUnion ==
  Aggregated =>
    LET Holds(entry, kept, keys) ==
          \A i \in 1..Len(entry) :
            SeqSet(candidates[i].potential_issues) = IssuesOf(kept, keys, entry[i])
        Kept(kept) == Holds(Norms(candidates), kept, Norms(kept))
    IN  Kept(KeptRaw)

\* the aggregation loop and the sort run over the lists of source
\* candidates, one list a channel, in the order given
RECURSIVE MergeLists(_, _)
MergeLists(acc, lists) ==
  IF Len(lists) = 0 THEN acc
  ELSE MergeLists(MergeCandidates(acc, Head(lists), Head(lists)[1].source), Tail(lists))
Aggregate(lists) ==
  SortByConfidence(MergeLists([seen_names |-> {}, candidates |-> <<>>], lists).candidates)
Ranking(cands) == Tabulate(LAMBDA i : <<cands[i].name, cands[i].confidence>>, 1, Len(cands))
Permuted(lists, p) == Tabulate(LAMBDA i : lists[p[i]], 1, Len(p))
NonEmptyRaw == SelectSeq(raw, LAMBDA l : Len(l) > 0)

\* C16: whatever the order in which the channels' candidate lists are
\* processed, the aggregated list has the same names with the same
\* confidences in the same rank order.
C16_OrderIndependent ==
  Aggregated =>
    LET Holds(lists, ranking) ==
          /\ ranking = Ranking(Aggregate(lists))
          /\ \A p \in Perms(1..Len(lists)) :
                Ranking(Aggregate(Permuted(lists, p))) = ranking
    IN  Holds(NonEmptyRaw, Ranking(candidates))

\* the orders in which the sets of extracted names of the blobs can be iterated
NameOrders ==
  LET Names(i) == table.names[FlagIndex(SPACY_AVAILABLE, NLTK_AVAILABLE)][TextIndex(sources[i])]
      Live(i)  == sources[i] # "" /\ ~table.definitive[TextIndex(sources[i])]
  IN  Product([i \in 1..Len(sources) |->
                 IF Live(i) THEN Perms(SeqSet(Names(i).names)) ELSE {<<>>}])

\* C17: the result returned for the blobs is the result of every run on
\* the same blobs, whatever the order in which the names extracted from a
\* blob are iterated.
C17_SameBlobsSameResult ==
  Returned =>
    \A orders \in NameOrders :
      build_detection_result(extract_candidates_from_sources(table, sources, orders),
                             CompanyName) = result

\* C18 as claimed: the score on the leadership page with the phrase "serves
\* as Treasurer since 2023" is strictly above the score of the same name on a
\* search channel without date wording, whatever further cues the two
\* contexts share.
C18_PageWithDateScoresHigherAsClaimed ==
  pc = "scored" => FGt(scored.page.confidence, scored.search.confidence)
\* C18 amended: the score on the leadership page with the phrase "serves as
\* Treasurer since 2023" is strictly above the score of the same name on a
\* search channel without date wording, whatever further cues the two
\* contexts share, unless the penalties bring both scores down to 0.0.
C18_PageWithDateScoresHigher ==
  pc = "scored" =>
    \/ FGt(scored.page.confidence, scored.search.confidence)
    \/ /\ SameScore(scored.page.confidence, F(0))
       /\ SameScore(scored.search.confidence, F(0))
\* both scores above the candidate floor and below the ceiling, penalties applied
C18_Witness ==
  /\ pc = "scored"
  /\ AtLeast(scored.search.confidence, 30)
  /\ ~AtLeast(scored.page.confidence, 100)
  /\ Len(scored.page.issues) > 0
  /\ FGt(scored.page.confidence, scored.search.confidence)

\* the state side of C19
FailuresAbsorbed ==
  /\ failed \subseteq {Channels[i] : i \in 1..Len(sources)}
  /\ \A i \in 1..Len(sources) : Channels[i] \in failed => sources[i] = ""
  /\ pc = "gather" <=> Len(sources) < Len(Channels)
  /\ pc = "raised" =>
        \E i \in 1..Len(sources) :
          /\ sources[i] # ""
          /\ table.names[FlagIndex(SPACY_AVAILABLE, NLTK_AVAILABLE)][TextIndex(sources[i])].raised
  /\ Returned =>
        \E orders \in NameOrders :
          result = build_detection_result(
                     extract_candidates_from_sources(table, sources, orders), CompanyName)
\* the step side of C19: a step of the gathering stores one more blob and
\* leaves the stored ones alone, the empty string when the channel failed
\* and the channel's text otherwise; later steps change neither
BlobStored ==
  LET ch == Len(sources) + 1
  IN  IF pc = "gather"
      THEN /\ Len(sources') = ch
           /\ SubSeq(sources', 1, Len(sources)) = sources
           /\ pc' \in {"gather", "extract"}
           /\ \/ failed' = failed \cup {Channels[ch]} /\ Channels[ch] \notin failed
              \/ failed' = failed /\ sources'[ch] \in TextsOf(ch) \cup {""}
      ELSE sources' = sources /\ failed' = failed

\* C19: whichever channels fail, the gathering runs through all channels
\* without raising, stores the empty string for each failing channel and the
\* fetched text for the others, and the detection goes on to a result built
\* from the blobs stored; an error reaches the caller only from the name
\* validation of a non-empty blob, never from a channel failure.
C19_ChannelFailuresAbsorbed == []FailuresAbsorbed /\ [][BlobStored]_vars
\* a result with a candidate although a channel failed
C19_Witness ==
  /\ Returned /\ failed # {} /\ Len(result.candidates) > 0
  /\ \E i \in 1..Len(sources) : sources[i] # "" /\ Channels[i] \notin failed

\* C20: every raw candidate, a validated name scored at or above the floor
\* of 0.30, has an entry under its normalized name in the aggregated list.
C20_ScoredNamesAreKept ==
  Aggregated =>
    LET Holds(entry, found) ==
          \A k \in 1..Len(found) :
            AtLeast(RawStream[k].confidence, 30) => Among(entry, found[k]) # {}
    IN  Holds(Norms(candidates), Norms(RawStream))

\* the text of the model that holds a definitive co-appointment phrase
DefinitiveTexts == {"Jane Doe is the CFO and Treasurer"}
Without(i) == [sources EXCEPT ![i] = ""]
NameOrdersOf(srcs) ==
  LET Names(i) == table.names[FlagIndex(SPACY_AVAILABLE, NLTK_AVAILABLE)][TextIndex(srcs[i])]
      Live(i)  == srcs[i] # "" /\ ~table.definitive[TextIndex(srcs[i])]
  IN  Product([i \in 1..Len(srcs) |->
                 IF Live(i) THEN Perms(SeqSet(Names(i).names)) ELSE {<<>>}])

\* C21: a blob with a definitive co-appointment phrase contributes no
\* candidate, and the aggregated list is the one the other blobs give when
\* the definitive blob is absent.
C21_DefinitiveBlobContributesNothing ==
  Aggregated =>
    \A i \in 1..Len(sources) :
      sources[i] \in DefinitiveTexts =>
        /\ raw[i] = <<>>
        /\ \A j \in 1..Len(candidates) : candidates[j].source # Channels[i]
        /\ \E orders \in NameOrdersOf(Without(i)) :
              /\ raw = RawCandidates(table, Without(i), orders)
              /\ candidates = extract_candidates_from_sources(table, Without(i), orders)
\* a definitive blob next to a blob that contributes a candidate
C21_Witness ==
  /\ Aggregated /\ Len(candidates) > 0
  /\ \E i \in 1..Len(sources) : sources[i] \in DefinitiveTexts

\* C22: every name the extractor returns, whichever backend accepted it,
\* has exactly two whitespace-separated tokens.
C22_NamesHaveTwoTokens ==
  (pc = "named" /\ ~extracted.names.raised) =>
    \A n \in extracted.names.names : Len(Split(n)) = 2

\* the texts of the model that hold the words "CFO and Treasurer"
CoAppointmentTexts ==
  { "Jane Doe is the CFO and Treasurer",
    "Jane Doe is the CFO and Treasurer. Mark Lee is assistant treasurer." }

\* C23: when no blob holds a co-appointment phrase the result is not
\* cfo_treasurer_combo.
C23_ComboNeedsCoAppointment ==
  (Returned /\ \A i \in 1..Len(sources) : sources[i] \notin CoAppointmentTexts) =>
    result.status # "cfo_treasurer_combo"

\* C24: a result with status uncertain has no primary, confidence level low
\* and email strategy use_cfo_only.
C24_UncertainHasNoPrimary ==
  (Returned /\ result.status = "uncertain") =>
    /\ result.primary_treasurer = NoneVal
    /\ result.confidence_level = "low"
    /\ result.email_strategy = "use_cfo_only"
\* an uncertain result for two candidates, the top one usable
C24_Witness ==
  /\ Returned /\ result.status = "uncertain"
  /\ Len(result.candidates) >= 2
  /\ AtLeast(result.candidates[1].confidence, 45)

\* C25: the email strategy is use_treasurer exactly when the status is
\* single_confident; then the primary is the name of the top candidate, whose
\* confidence is at least 0.55; and the email guidance names a treasurer only
\* then, the primary.
C25_UseTreasurerIffSingleConfident ==
  Returned =>
    LET Holds(guidance) ==
          /\ guidance.strategy = result.email_strategy
          /\ result.email_strategy = "use_treasurer" <=> result.status = "single_confident"
          /\ result.status = "single_confident" =>
                /\ result.primary_treasurer = result.candidates[1].name
                /\ AtLeast(result.candidates[1].confidence, 55)
                /\ guidance.treasurer_name = result.primary_treasurer
          /\ guidance.treasurer_name # NoneVal => result.status = "single_confident"
    IN  Holds(email_guidance(result))
\* a single_confident result for a top candidate with a runner-up
C25_Witness ==
  /\ Returned /\ result.status = "single_confident"
  /\ result.email_strategy = "use_treasurer"
  /\ Len(result.candidates) >= 2
  /\ email_guidance(result).treasurer_name = result.candidates[1].name

\* C26: no result has email strategy use_treasurer while its primary
\* candidate carries a past-role or outdated issue.
C26_NoOutdatedTreasurerForEmail ==
  (Returned /\ result.email_strategy = "use_treasurer") =>
    \A i \in 1..Len(result.candidates) :
      result.candidates[i].name = result.primary_treasurer =>
        \A tag \in {"past_role_indicator", "potentially_outdated", "definitely_outdated"} :
          ~HasIssue(result.candidates[i], tag)

(***************************************************************************)
(* The email scraper (SpecEmail).                                          *)
(***************************************************************************)
\* the run of scrape_emails_with_intelligence is over
ScrapeOver == pc \in {"returned", "raised"}
\* the positions of the queries of one kind in the order they were sent
SentAt(kind) == {i \in 1..Len(mail.queries) : mail.queries[i].kind = kind}

\* C27: with the strategy use_cfo_only a run that found the domain sends no
\* treasurer search and returns treasurer_email None with treasurer_status
\* skipped_due_to_uncertainty, on the known-email path and on the fallback path
C27_CfoOnlySkipsTreasurer ==
  (ScrapeOver /\ mail.email_strategy = "use_cfo_only" /\ mail.domain # NoneVal)
    => /\ SentAt("treasurer") = {}
       /\ pc = "returned"
       /\ "treasurer_status" \in DOMAIN mail.out
       /\ mail.out.treasurer_email = PyNone
       /\ mail.out.treasurer_status = "skipped_due_to_uncertainty"

\* the rank of a query in the order the scraper sends them
QueryRank(kind) ==
  CASE kind = "domain" -> 1
    [] kind = "domain_ir" -> 2
    [] kind = "cfo" -> 3
    [] kind = "ceo" -> 4
    [] kind = "treasurer" -> 5
    [] kind = "all" -> 6

\* a search of the kind was sent and its snippets held a (name, email) pair
Produced(kind) == \E i \in SentAt(kind) : Len(mail.queries[i].found) > 0
\* a search of the kind held a pair with a name whose format is detected
ProducedValid(kind) ==
  \E i \in SentAt(kind) :
     \E k \in 1..Len(mail.queries[i].found) :
        LET Valid(pair) == /\ Truthy(pair.items[1])
                           /\ Truthy(detect_email_format(pair.items[1], pair.items[2]))
        IN  Valid(mail.queries[i].found[k])
\* the treasurer search is allowed at all
TreasurerAllowed ==
  mail.treasurer_name \notin {NoneVal, ""} /\ mail.email_strategy = "use_treasurer"

\* C28: the queries are sent in the order CFO, CEO, treasurer, fallback; the CEO
\* search only if the CFO search produced no known email; the treasurer search
\* only if neither earlier search produced one, a treasurer name is set and the
\* strategy is use_treasurer; the fallback search only after every search that
\* was due has been sent and none returned a valid email
C28_SearchPriority ==
  (pc \notin {"scrape"}) =>
    /\ \A i, j \in 1..Len(mail.queries) :
          i < j => QueryRank(mail.queries[i].kind) < QueryRank(mail.queries[j].kind)
    /\ SentAt("ceo") # {} => ~Produced("cfo")
    /\ SentAt("treasurer") # {}
          => ~Produced("cfo") /\ ~Produced("ceo") /\ TreasurerAllowed
    /\ SentAt("all") # {}
          => /\ mail.cfo_name # "" => SentAt("cfo") # {}
             /\ (mail.ceo_name # "" /\ ~Produced("cfo")) => SentAt("ceo") # {}
             /\ (TreasurerAllowed /\ ~Produced("cfo") /\ ~Produced("ceo"))
                   => SentAt("treasurer") # {}
             /\ ~ProducedValid("cfo") /\ ~ProducedValid("ceo")
             /\ ~ProducedValid("treasurer")

\* a treasurer search was sent, after no CFO and no CEO search
C28_Witness ==
  /\ pc # "scrape"
  /\ SentAt("treasurer") # {}
  /\ ~Produced("cfo") /\ ~Produced("ceo") /\ TreasurerAllowed

(***************************************************************************)
(* The facility extractor (SpecRobust, SpecSeparate).                      *)
(***************************************************************************)
\* the calls of the model of one pass on one content
CallsOn(content, pass) ==
  {i \in 1..Len(filing.calls) :
     filing.calls[i].content = content /\ filing.calls[i].pass = pass}
\* a call of the model on the full content failed
FullContentFailed ==
  \E i \in 1..Len(filing.calls) :
     filing.calls[i].content = "full content" /\ ~filing.calls[i].ok

\* C29: when a call of the model on the full content has failed, the first
\* pass included, extract_facilities_robust returns only after it tried again
\* on the filtered content, and it returns an error result only after that
\* second attempt
C29_FilteredRetryBeforeError ==
  pc = "returned" =>
    /\ FullContentFailed => CallsOn("filtered content", "first") # {}
    /\ HasError(filing.out) => CallsOn("filtered content", "first") # {}

\* the names of the entries of one array
EntryNames(entries) == {entries[i].name : i \in 1..Len(entries)}

\* C30: after the post-processing of an answer with both arrays no name is in
\* both arrays, no name with a credit-agreement keyword is in notes, and no
\* name with a note keyword and no credit-agreement keyword is in facilities
C30_ArraysSeparatedByKeyword ==
  pc = "separated" =>
    /\ EntryNames(filing.out.facilities) \cap EntryNames(filing.out.notes) = {}
    /\ \A name \in EntryNames(filing.out.notes) :
          ~AnyKeyword(name, credit_agreement_keywords)
    /\ \A name \in EntryNames(filing.out.facilities) :
          AnyKeyword(name, note_keywords) => AnyKeyword(name, credit_agreement_keywords)
====
